---------------------------- MODULE Spec2Model ----------------------------
(***************************************************************************)
(* A model of package coding (src/coding/qr.go): the bit writer, the text   *)
(* encoders, plan construction (vplan, lplan, fplan, mplan), Plan.Encode    *)
(* with its mask search, Code.Penalty and the AutoPlan cache.               *)
(*                                                                         *)
(* Conventions.  A Pixel is the integer the code packs: role + 16*offset.   *)
(* A bitmap ([]byte) is the set of its 1-bits, a bit being named by         *)
(* 8*byteIndex + k where k counts from the most significant bit of the      *)
(* byte, so Code.set(b, y, x) adds y*Stride*8 + x.  Levels are 0..3 and     *)
(* grids are indexed from 0 as in the code.                                 *)
(***************************************************************************)
EXTENDS Integers, Sequences, FiniteSets, TLC

MinVersion == 1
MaxVersion == 40

\* Levels L, M, Q, H.
L == 0
M == 1
Q == 2
H == 3
Levels == L..H

\* Pixel roles.
Position == 1
Alignment == 2
Timing == 3
Format == 4
PVersion == 5
Unused == 6
Data == 7
Check == 8
Extra == 9

OffsetPixel(o) == o * 16
Offset(p) == p \div 16
Role(p) == p % 16

\* Bit i of the non-negative integer v (v>>i & 1).
BitOf(v, i) == (v \div (2 ^ i)) % 2

Min(a, b) == IF a < b THEN a ELSE b

vtab ==
  <<
    [apos |-> 100, astride |-> 100, bytes |-> 26, pattern |-> 0,
     level |-> <<[nblock |-> 1, check |-> 7], [nblock |-> 1, check |-> 10], [nblock |-> 1, check |-> 13], [nblock |-> 1, check |-> 17]>>],
    [apos |-> 16, astride |-> 100, bytes |-> 44, pattern |-> 0,
     level |-> <<[nblock |-> 1, check |-> 10], [nblock |-> 1, check |-> 16], [nblock |-> 1, check |-> 22], [nblock |-> 1, check |-> 28]>>],
    [apos |-> 20, astride |-> 100, bytes |-> 70, pattern |-> 0,
     level |-> <<[nblock |-> 1, check |-> 15], [nblock |-> 1, check |-> 26], [nblock |-> 2, check |-> 18], [nblock |-> 2, check |-> 22]>>],
    [apos |-> 24, astride |-> 100, bytes |-> 100, pattern |-> 0,
     level |-> <<[nblock |-> 1, check |-> 20], [nblock |-> 2, check |-> 18], [nblock |-> 2, check |-> 26], [nblock |-> 4, check |-> 16]>>],
    [apos |-> 28, astride |-> 100, bytes |-> 134, pattern |-> 0,
     level |-> <<[nblock |-> 1, check |-> 26], [nblock |-> 2, check |-> 24], [nblock |-> 4, check |-> 18], [nblock |-> 4, check |-> 22]>>],
    [apos |-> 32, astride |-> 100, bytes |-> 172, pattern |-> 0,
     level |-> <<[nblock |-> 2, check |-> 18], [nblock |-> 4, check |-> 16], [nblock |-> 4, check |-> 24], [nblock |-> 4, check |-> 28]>>],
    [apos |-> 20, astride |-> 16, bytes |-> 196, pattern |-> 31892,
     level |-> <<[nblock |-> 2, check |-> 20], [nblock |-> 4, check |-> 18], [nblock |-> 6, check |-> 18], [nblock |-> 5, check |-> 26]>>],
    [apos |-> 22, astride |-> 18, bytes |-> 242, pattern |-> 34236,
     level |-> <<[nblock |-> 2, check |-> 24], [nblock |-> 4, check |-> 22], [nblock |-> 6, check |-> 22], [nblock |-> 6, check |-> 26]>>],
    [apos |-> 24, astride |-> 20, bytes |-> 292, pattern |-> 39577,
     level |-> <<[nblock |-> 2, check |-> 30], [nblock |-> 5, check |-> 22], [nblock |-> 8, check |-> 20], [nblock |-> 8, check |-> 24]>>],
    [apos |-> 26, astride |-> 22, bytes |-> 346, pattern |-> 42195,
     level |-> <<[nblock |-> 4, check |-> 18], [nblock |-> 5, check |-> 26], [nblock |-> 8, check |-> 24], [nblock |-> 8, check |-> 28]>>],
    [apos |-> 28, astride |-> 24, bytes |-> 404, pattern |-> 48118,
     level |-> <<[nblock |-> 4, check |-> 20], [nblock |-> 5, check |-> 30], [nblock |-> 8, check |-> 28], [nblock |-> 11, check |-> 24]>>],
    [apos |-> 30, astride |-> 26, bytes |-> 466, pattern |-> 51042,
     level |-> <<[nblock |-> 4, check |-> 24], [nblock |-> 8, check |-> 22], [nblock |-> 10, check |-> 26], [nblock |-> 11, check |-> 28]>>],
    [apos |-> 32, astride |-> 28, bytes |-> 532, pattern |-> 55367,
     level |-> <<[nblock |-> 4, check |-> 26], [nblock |-> 9, check |-> 22], [nblock |-> 12, check |-> 24], [nblock |-> 16, check |-> 22]>>],
    [apos |-> 24, astride |-> 20, bytes |-> 581, pattern |-> 58893,
     level |-> <<[nblock |-> 4, check |-> 30], [nblock |-> 9, check |-> 24], [nblock |-> 16, check |-> 20], [nblock |-> 16, check |-> 24]>>],
    [apos |-> 24, astride |-> 22, bytes |-> 655, pattern |-> 63784,
     level |-> <<[nblock |-> 6, check |-> 22], [nblock |-> 10, check |-> 24], [nblock |-> 12, check |-> 30], [nblock |-> 18, check |-> 24]>>],
    [apos |-> 24, astride |-> 24, bytes |-> 733, pattern |-> 68472,
     level |-> <<[nblock |-> 6, check |-> 24], [nblock |-> 10, check |-> 28], [nblock |-> 17, check |-> 24], [nblock |-> 16, check |-> 30]>>],
    [apos |-> 28, astride |-> 24, bytes |-> 815, pattern |-> 70749,
     level |-> <<[nblock |-> 6, check |-> 28], [nblock |-> 11, check |-> 28], [nblock |-> 16, check |-> 28], [nblock |-> 19, check |-> 28]>>],
    [apos |-> 28, astride |-> 26, bytes |-> 901, pattern |-> 76311,
     level |-> <<[nblock |-> 6, check |-> 30], [nblock |-> 13, check |-> 26], [nblock |-> 18, check |-> 28], [nblock |-> 21, check |-> 28]>>],
    [apos |-> 28, astride |-> 28, bytes |-> 991, pattern |-> 79154,
     level |-> <<[nblock |-> 7, check |-> 28], [nblock |-> 14, check |-> 26], [nblock |-> 21, check |-> 26], [nblock |-> 25, check |-> 26]>>],
    [apos |-> 32, astride |-> 28, bytes |-> 1085, pattern |-> 84390,
     level |-> <<[nblock |-> 8, check |-> 28], [nblock |-> 16, check |-> 26], [nblock |-> 20, check |-> 30], [nblock |-> 25, check |-> 28]>>],
    [apos |-> 26, astride |-> 22, bytes |-> 1156, pattern |-> 87683,
     level |-> <<[nblock |-> 8, check |-> 28], [nblock |-> 17, check |-> 26], [nblock |-> 23, check |-> 28], [nblock |-> 25, check |-> 30]>>],
    [apos |-> 24, astride |-> 24, bytes |-> 1258, pattern |-> 92361,
     level |-> <<[nblock |-> 9, check |-> 28], [nblock |-> 17, check |-> 28], [nblock |-> 23, check |-> 30], [nblock |-> 34, check |-> 24]>>],
    [apos |-> 28, astride |-> 24, bytes |-> 1364, pattern |-> 96236,
     level |-> <<[nblock |-> 9, check |-> 30], [nblock |-> 18, check |-> 28], [nblock |-> 25, check |-> 30], [nblock |-> 30, check |-> 30]>>],
    [apos |-> 26, astride |-> 26, bytes |-> 1474, pattern |-> 102084,
     level |-> <<[nblock |-> 10, check |-> 30], [nblock |-> 20, check |-> 28], [nblock |-> 27, check |-> 30], [nblock |-> 32, check |-> 30]>>],
    [apos |-> 30, astride |-> 26, bytes |-> 1588, pattern |-> 102881,
     level |-> <<[nblock |-> 12, check |-> 26], [nblock |-> 21, check |-> 28], [nblock |-> 29, check |-> 30], [nblock |-> 35, check |-> 30]>>],
    [apos |-> 28, astride |-> 28, bytes |-> 1706, pattern |-> 110507,
     level |-> <<[nblock |-> 12, check |-> 28], [nblock |-> 23, check |-> 28], [nblock |-> 34, check |-> 28], [nblock |-> 37, check |-> 30]>>],
    [apos |-> 32, astride |-> 28, bytes |-> 1828, pattern |-> 110734,
     level |-> <<[nblock |-> 12, check |-> 30], [nblock |-> 25, check |-> 28], [nblock |-> 34, check |-> 30], [nblock |-> 40, check |-> 30]>>],
    [apos |-> 24, astride |-> 24, bytes |-> 1921, pattern |-> 117786,
     level |-> <<[nblock |-> 13, check |-> 30], [nblock |-> 26, check |-> 28], [nblock |-> 35, check |-> 30], [nblock |-> 42, check |-> 30]>>],
    [apos |-> 28, astride |-> 24, bytes |-> 2051, pattern |-> 119615,
     level |-> <<[nblock |-> 14, check |-> 30], [nblock |-> 28, check |-> 28], [nblock |-> 38, check |-> 30], [nblock |-> 45, check |-> 30]>>],
    [apos |-> 24, astride |-> 26, bytes |-> 2185, pattern |-> 126325,
     level |-> <<[nblock |-> 15, check |-> 30], [nblock |-> 29, check |-> 28], [nblock |-> 40, check |-> 30], [nblock |-> 48, check |-> 30]>>],
    [apos |-> 28, astride |-> 26, bytes |-> 2323, pattern |-> 127568,
     level |-> <<[nblock |-> 16, check |-> 30], [nblock |-> 31, check |-> 28], [nblock |-> 43, check |-> 30], [nblock |-> 51, check |-> 30]>>],
    [apos |-> 32, astride |-> 26, bytes |-> 2465, pattern |-> 133589,
     level |-> <<[nblock |-> 17, check |-> 30], [nblock |-> 33, check |-> 28], [nblock |-> 45, check |-> 30], [nblock |-> 54, check |-> 30]>>],
    [apos |-> 28, astride |-> 28, bytes |-> 2611, pattern |-> 136944,
     level |-> <<[nblock |-> 18, check |-> 30], [nblock |-> 35, check |-> 28], [nblock |-> 48, check |-> 30], [nblock |-> 57, check |-> 30]>>],
    [apos |-> 32, astride |-> 28, bytes |-> 2761, pattern |-> 141498,
     level |-> <<[nblock |-> 19, check |-> 30], [nblock |-> 37, check |-> 28], [nblock |-> 51, check |-> 30], [nblock |-> 60, check |-> 30]>>],
    [apos |-> 28, astride |-> 24, bytes |-> 2876, pattern |-> 145311,
     level |-> <<[nblock |-> 19, check |-> 30], [nblock |-> 38, check |-> 28], [nblock |-> 53, check |-> 30], [nblock |-> 63, check |-> 30]>>],
    [apos |-> 22, astride |-> 26, bytes |-> 3034, pattern |-> 150283,
     level |-> <<[nblock |-> 20, check |-> 30], [nblock |-> 40, check |-> 28], [nblock |-> 56, check |-> 30], [nblock |-> 66, check |-> 30]>>],
    [apos |-> 26, astride |-> 26, bytes |-> 3196, pattern |-> 152622,
     level |-> <<[nblock |-> 21, check |-> 30], [nblock |-> 43, check |-> 28], [nblock |-> 59, check |-> 30], [nblock |-> 70, check |-> 30]>>],
    [apos |-> 30, astride |-> 26, bytes |-> 3362, pattern |-> 158308,
     level |-> <<[nblock |-> 22, check |-> 30], [nblock |-> 45, check |-> 28], [nblock |-> 62, check |-> 30], [nblock |-> 74, check |-> 30]>>],
    [apos |-> 24, astride |-> 28, bytes |-> 3532, pattern |-> 161089,
     level |-> <<[nblock |-> 24, check |-> 30], [nblock |-> 47, check |-> 28], [nblock |-> 65, check |-> 30], [nblock |-> 77, check |-> 30]>>],
    [apos |-> 28, astride |-> 28, bytes |-> 3706, pattern |-> 167017,
     level |-> <<[nblock |-> 25, check |-> 30], [nblock |-> 49, check |-> 28], [nblock |-> 68, check |-> 30], [nblock |-> 81, check |-> 30]>>]
  >>

sizeClass(v) == IF v <= 9 THEN 0 ELSE IF v <= 26 THEN 1 ELSE 2

\* Version.DataBytes.
DataBytes(v, l) ==
    LET Of(ver) == ver.bytes - ver.level[l + 1].nblock * ver.level[l + 1].check
    IN  Of(vtab[v])

(***************************************************************************)
(* vplan.  The code paints the grid in phases, each overwriting the roles   *)
(* of the one before: timing, position boxes, alignment boxes, version      *)
(* pattern, format pixels, the lonely pixel.  VPixel gives the role a cell  *)
(* holds when vplan returns, which is that of the last phase that wrote it. *)
(* Code.set only ever ORs a bit in, so the bitmap is the union of the bits  *)
(* the phases set.                                                          *)
(***************************************************************************)
SizeOf(v) == 17 + v * 4
StrideOf(siz) == (siz + 7) \div 8

\* Code.set(b, y, x): the bit it sets, in a bitmap of the given stride.
BitAt(stride, y, x) == (y * stride + (x \div 8)) * 8 + (x % 8)

\* Timing markers: row and column 6; black on even indices.
ti == 6
InTiming(y, x) == y = ti \/ x = ti
TimingBlack(y, x) == (x = ti /\ y % 2 = 0) \/ (y = ti /\ x % 2 = 0)

\* posBox(m, c, x0, y0): the 7x7 box and its white border, clipped to the grid.
InPosBoxAt(siz, x0, y0, y, x) ==
    \/ (y0 <= y /\ y < y0 + 7 /\ x0 <= x /\ x < x0 + 7)
    \/ (y0 - 1 <= y /\ y < y0 + 8 /\ ((x0 > 0 /\ x = x0 - 1) \/ (x0 + 7 < siz /\ x = x0 + 7)))
    \/ (x0 - 1 <= x /\ x < x0 + 8 /\ ((y0 > 0 /\ y = y0 - 1) \/ (y0 + 7 < siz /\ y = y0 + 7)))

PosBoxBlackAt(x0, y0, y, x) ==
    LET dx == x - x0
        dy == y - y0
    IN  /\ 0 <= dx /\ dx < 7 /\ 0 <= dy /\ dy < 7
        /\ (dx = 0 \/ dx = 6 \/ dy = 0 \/ dy = 6 \/ (2 <= dx /\ dx <= 4 /\ 2 <= dy /\ dy <= 4))

\* The three position boxes of vplan: (0,0), (siz-7,0), (0,siz-7).
PosCorners(siz) == {<<0, 0>>, <<siz - 7, 0>>, <<0, siz - 7>>}
InPosBox(siz, y, x) == \E c \in PosCorners(siz) : InPosBoxAt(siz, c[1], c[2], y, x)
PosBoxBlack(siz, y, x) == \E c \in PosCorners(siz) : PosBoxBlackAt(c[1], c[2], y, x)

\* The coordinates the alignment loops step through: 4, apos, apos+astride, ...
\* while c+5 < siz.
\* ver is the version's vtab entry.
RECURSIVE AlignCoordsFrom(_, _, _)
AlignCoordsFrom(ver, siz, c) ==
    IF c + 5 < siz
    THEN {c} \cup AlignCoordsFrom(ver, siz, IF c = 4 THEN ver.apos ELSE c + ver.astride)
    ELSE {}
AlignCoords(ver, siz) == AlignCoordsFrom(ver, siz, 4)

\* The corners (x, y) at which vplan calls alignBox.
AlignCorners(ver, siz) ==
    {c \in AlignCoords(ver, siz) \X AlignCoords(ver, siz) :
        ~ \/ (c[1] < 7 /\ c[2] < 7)
          \/ (c[1] < 7 /\ c[2] + 5 >= siz - 7)
          \/ (c[1] + 5 >= siz - 7 /\ c[2] < 7)}

InAlignBoxAt(x0, y0, y, x) == x0 <= x /\ x < x0 + 5 /\ y0 <= y /\ y < y0 + 5
AlignBoxBlackAt(x0, y0, y, x) ==
    LET dx == x - x0
        dy == y - y0
    IN  /\ InAlignBoxAt(x0, y0, y, x)
        /\ (dx = 0 \/ dx = 4 \/ dy = 0 \/ dy = 4 \/ (dx = 2 /\ dy = 2))

\* Version pattern: two 6x3 blocks, bit 3*x+y of the pattern, LSB first.
InVersionBlock(pattern, siz, y, x) ==
    /\ pattern # 0
    /\ \/ (siz - 11 <= y /\ y < siz - 8 /\ 0 <= x /\ x < 6)
       \/ (siz - 11 <= x /\ x < siz - 8 /\ 0 <= y /\ y < 6)
VersionBlack(pattern, siz, y, x) ==
    /\ pattern # 0
    /\ \/ (siz - 11 <= y /\ y < siz - 8 /\ 0 <= x /\ x < 6
            /\ BitOf(pattern, 3 * x + (y - (siz - 11))) = 1)
       \/ (siz - 11 <= x /\ x < siz - 8 /\ 0 <= y /\ y < 6
            /\ BitOf(pattern, 3 * y + (x - (siz - 11))) = 1)

\* The two cells <<y, x>> that hold format bit i (vplan and fplan agree on them).
FormatCellA(i) ==
    IF i < 6 THEN <<i, 8>>
    ELSE IF i < 8 THEN <<i + 1, 8>>
    ELSE IF i < 9 THEN <<8, 7>>
    ELSE <<8, 14 - i>>
FormatCellB(siz, i) ==
    IF i < 8 THEN <<8, siz - 1 - i>> ELSE <<siz - 1 - (14 - i), 8>>
FormatIndexes == 0..14

\* The pixel vplan leaves in cell (y, x); 0 is a cell no phase has claimed.
VPixel(siz, pattern, aligns, y, x) ==
    IF y = siz - 8 /\ x = 8 THEN Unused
    ELSE IF \E i \in FormatIndexes : FormatCellA(i) = <<y, x>> \/ FormatCellB(siz, i) = <<y, x>>
    THEN Format + OffsetPixel(CHOOSE i \in FormatIndexes :
                    FormatCellA(i) = <<y, x>> \/ FormatCellB(siz, i) = <<y, x>>)
    ELSE IF InVersionBlock(pattern, siz, y, x) THEN PVersion
    ELSE IF \E c \in aligns : InAlignBoxAt(c[1], c[2], y, x) THEN Alignment
    ELSE IF InPosBox(siz, y, x) THEN Position
    ELSE IF InTiming(y, x) THEN Timing
    ELSE 0

VBlack(siz, pattern, aligns, y, x) ==
    \/ TimingBlack(y, x)
    \/ PosBoxBlack(siz, y, x)
    \/ \E c \in aligns : AlignBoxBlackAt(c[1], c[2], y, x)
    \/ VersionBlack(pattern, siz, y, x)
    \/ (y = siz - 8 /\ x = 8)

\* vplan(v, n): a Plan with the fixed patterns; the bitmap has room for n copies
\* and the patterns are set in the first.
vplan(v, n) ==
    LET siz == SizeOf(v)
        stride == StrideOf(siz)
        Grid(pattern, aligns) ==
            [Version |-> v, Level |-> 0, Mask |-> 0,
             DataBytes |-> 0, CheckBytes |-> 0, Blocks |-> 0,
             Pixel |-> [y \in 0..siz - 1 |->
                          [x \in 0..siz - 1 |-> VPixel(siz, pattern, aligns, y, x)]],
             Code |-> [Size |-> siz, Stride |-> stride, Len |-> stride * siz * n,
                       Bitmap |-> {BitAt(stride, c[1], c[2]) :
                                     c \in {c \in (0..siz - 1) \X (0..siz - 1) :
                                              VBlack(siz, pattern, aligns, c[1], c[2])}}]]
    IN  Grid(vtab[v].pattern, AlignCorners(vtab[v], siz))

(***************************************************************************)
(* lplan: block sizes, the interleaved bit order and the zigzag sweep.      *)
(***************************************************************************)
\* The data (or check) pixels of block i: nd bytes starting at byte `start`.
BlockPixels(role, start, nd) ==
    [k \in 1..nd * 8 |-> role + OffsetPixel(start * 8 + k - 1)]

\* Split into blocks: the last `extra` blocks have an extra data byte.
RECURSIVE SplitData(_, _, _, _, _)
SplitData(nblock, nde, extra, i, start) ==
    IF i >= nblock THEN <<>>
    ELSE LET nd == IF i >= nblock - extra THEN nde + 1 ELSE nde
         IN  <<BlockPixels(Data, start, nd)>> \o SplitData(nblock, nde, extra, i + 1, start + nd)

SplitCheck(nblock, ne, dataBits) ==
    [i \in 1..nblock |-> BlockPixels(Check, (dataBits \div 8) + (i - 1) * ne, ne)]

\* The blocks one after the other, not interleaved.
RECURSIVE InterleaveNone(_, _)
InterleaveNone(list, rounds) ==
    IF list = <<>> THEN <<>> ELSE Head(list) \o InterleaveNone(Tail(list), rounds)

\* "taking first byte of each block, then second byte, and so on":
\* for i in 0..rounds-1, for each block b in order, if i*8 < len(b) emit
\* b[i*8 : (i+1)*8].
Interleave(list, rounds) ==
    LET nb == Len(list)
        slots == [k \in 1..rounds * nb |-> <<(k - 1) \div nb, ((k - 1) % nb) + 1>>]
        taken == SelectSeq(slots, LAMBDA q : q[1] * 8 < Len(list[q[2]]))
    IN  [j \in 1..Len(taken) * 8 |->
            LET q == taken[((j - 1) \div 8) + 1]
            IN  list[q[2]][q[1] * 8 + ((j - 1) % 8) + 1]]

\* The 7 filler pixels appended for the sweep.
NRem == 7
\* A source without the fillers, which the sweep of some versions exhausts.
SweepSourceBare(bits) == bits
\* rem := 7 Extra pixels; src := append(bits, rem...)
SweepSource(bits) == bits \o [i \in 1..NRem |-> Extra]

\* A fill that does not advance src, so that every cell gets the same pixel.
FillCellSame(st, src, y, x) ==
    IF st.panic # "" \/ Role(st.Pixel[y][x]) # 0 THEN st
    ELSE IF st.n >= Len(src) THEN [st EXCEPT !.panic = "index out of range"]
    ELSE [st EXCEPT !.Pixel[y][x] = src[st.n + 1]]
\* One "if p.Pixel[y][x].Role() == 0 { p.Pixel[y][x], src = src[0], src[1:] }".
\* st.n counts the pixels taken from src; taking from an empty src is the
\* index-out-of-range panic.
FillCell(st, src, y, x) ==
    IF st.panic # "" \/ Role(st.Pixel[y][x]) # 0 THEN st
    ELSE IF st.n >= Len(src) THEN [st EXCEPT !.panic = "index out of range"]
    ELSE [st EXCEPT !.Pixel[y][x] = src[st.n + 1], !.n = st.n + 1]

\* One pass over the column pair (x-1, x-2), from row y on in direction dy.
\* A panic ends the sweep.
RECURSIVE SweepRows(_, _, _, _, _, _)
SweepRows(st, src, siz, x, y, dy) ==
    IF st.panic # "" \/ y < 0 \/ y >= siz THEN st
    ELSE SweepRows(FillCell(FillCell(st, src, y, x - 1), src, y, x - 2),
                   src, siz, x, y + dy, dy)

\* for x := siz; x > 0; { up; x -= 2; if x == 7 { x-- }; down; x -= 2 }
RECURSIVE Sweep(_, _, _, _)
Sweep(st, src, siz, x) ==
    IF st.panic # "" \/ x <= 0 THEN st
    ELSE LET x2 == IF x - 2 = 7 THEN 6 ELSE x - 2
         IN  Sweep(SweepRows(SweepRows(st, src, siz, x, siz - 1, -1), src, siz, x2, 0, 1),
                   src, siz, x2 - 2)

\* The number of pixels in the blocks of a list.
RECURSIVE TotalLen(_, _)
TotalLen(list, i) == IF i > Len(list) THEN 0 ELSE Len(list[i]) + TotalLen(list, i + 1)

\* The plan lplan leaves once the sweep has ended in state st.  `left` is the
\* number of pixels of src the sweep did not place.
lplanResult(l, p, nblock, ne, bytes, src, st) ==
    [plan |-> [p EXCEPT !.Level = l,
                        !.DataBytes = bytes - ne * nblock,
                        !.CheckBytes = ne * nblock,
                        !.Blocks = nblock,
                        !.Pixel = st.Pixel],
     panic |-> st.panic,
     left |-> Len(src) - st.n]

lplanSweep(l, p, nblock, ne, bytes, src) ==
    lplanResult(l, p, nblock, ne, bytes, src,
                Sweep([Pixel |-> p.Pixel, n |-> 0, panic |-> ""],
                      src, p.Code.Size, p.Code.Size))

\* bits is the interleaved sequence; it fills dst exactly or "dst math".
lplanBits(l, p, nblock, ne, bytes, total, bits) ==
    IF Len(bits) # total
    THEN [plan |-> p, panic |-> "dst math", left |-> 0]
    ELSE lplanSweep(l, p, nblock, ne, bytes, SweepSource(bits))

\* The blocks use up data and check exactly or "data/check math".
lplanBlocks(l, p, nblock, ne, nde, bytes, dataBits, checkBits, dataList, checkList) ==
    IF TotalLen(dataList, 1) # dataBits \/ TotalLen(checkList, 1) # checkBits
    THEN [plan |-> p, panic |-> "data/check math", left |-> 0]
    ELSE lplanBits(l, p, nblock, ne, bytes, dataBits + checkBits,
                   Interleave(dataList, nde + 1) \o Interleave(checkList, ne))

\* lev is the level's entry of the version's vtab entry, bytes its byte count.
lplanLevel(l, p, lev, bytes) ==
    LET nblock == lev.nblock
        ne == lev.check
        nde == (bytes - ne * nblock) \div nblock
        extra == (bytes - ne * nblock) % nblock
        dataBits == (nde * nblock + extra) * 8
    IN  lplanBlocks(l, p, nblock, ne, nde, bytes, dataBits, ne * nblock * 8,
                    SplitData(nblock, nde, extra, 0, 0), SplitCheck(nblock, ne, dataBits))

lplan(v, l, p) == lplanLevel(l, p, vtab[v].level[l + 1], vtab[v].bytes)

(***************************************************************************)
(* fplan: the 15 format bits, BCH remainder by long division with 0x537.    *)
(***************************************************************************)
RECURSIVE XorW(_, _, _)
XorW(a, b, w) ==
    IF w = 0 THEN 0
    ELSE ((a + b) % 2) + 2 * XorW(a \div 2, b \div 2, w - 1)
RECURSIVE OrW(_, _, _)
OrW(a, b, w) ==
    IF w = 0 THEN 0
    ELSE (IF (a % 2) + (b % 2) > 0 THEN 1 ELSE 0) + 2 * OrW(a \div 2, b \div 2, w - 1)

formatPoly == 1335     \* 0x537
formatMask == 21522    \* 0x5412

\* for i := 14; i >= 10; i-- { if rem&(1<<i) != 0 { rem ^= formatPoly << (i-10) } }
RECURSIVE FormatRem(_, _)
FormatRem(rem, i) ==
    IF i < 10 THEN rem
    ELSE FormatRem(IF BitOf(rem, i) = 1 THEN XorW(rem, formatPoly * (2 ^ (i - 10)), 15) ELSE rem,
                   i - 1)

\* The format bits without the final xor.
FormatBitsUnmasked(l, m) ==
    LET fb == XorW(l, 1, 2) * (2 ^ 13) + m * (2 ^ 10)
    IN  OrW(fb, FormatRem(fb, 14), 15)
\* fb := uint32(l^1)<<13 | uint32(m)<<10; fb |= rem; fb ^= 0x5412
FormatBits(l, m) ==
    LET fb == XorW(l, 1, 2) * (2 ^ 13) + m * (2 ^ 10)
    IN  XorW(OrW(fb, FormatRem(fb, 14), 15), formatMask, 15)

\* The two cells (y, x) fplan sets for bit i: the first switch and the
\* "bottom right" switch.
FormatSetA(i) ==
    IF i < 6 THEN <<i, 8>>
    ELSE IF i < 8 THEN <<i + 1, 8>>
    ELSE IF i < 9 THEN <<8, 7>>
    ELSE <<8, 14 - i>>
FormatSetB(siz, i) ==
    IF i < 8 THEN <<8, siz - 1 - i>> ELSE <<siz - 1 - 14 + i, 8>>

\* The bits fplan sets in the bitmap slice starting at byte `base`.
fplan(l, m, p, base) ==
    LET fb == FormatBits(l, m)
        siz == p.Code.Size
        at(c) == base * 8 + BitAt(p.Code.Stride, c[1], c[2])
    IN  UNION {{at(FormatSetA(i)), at(FormatSetB(siz, i))} :
                 i \in {i \in 0..14 : BitOf(fb, i) = 1}}

(***************************************************************************)
(* mplan and the mask functions.                                            *)
(***************************************************************************)
mfunc(m, i, j) ==
    CASE m = 0 -> (i + j) % 2 = 0
      [] m = 1 -> i % 2 = 0
      [] m = 2 -> j % 3 = 0
      [] m = 3 -> (i + j) % 3 = 0
      [] m = 4 -> ((i \div 2) + (j \div 3)) % 2 = 0
      [] m = 5 -> ((i * j) % 2) + ((i * j) % 3) = 0
      [] m = 6 -> (((i * j) % 2) + ((i * j) % 3)) % 2 = 0
      [] m = 7 -> (((i * j) % 3) + ((i + j) % 2)) % 2 = 0

Invert(m, y, x) == IF m < 0 THEN FALSE ELSE mfunc(m, y, x)

IsMasked(pix) == Role(pix) = Data \/ Role(pix) = Check \/ Role(pix) = Extra

\* A mask applied to the Data and Check pixels only.
mplanNoExtra(m, p, base) ==
    LET siz == p.Code.Size
    IN  {base * 8 + BitAt(p.Code.Stride, c[1], c[2]) :
           c \in {c \in (0..siz - 1) \X (0..siz - 1) :
                    /\ Role(p.Pixel[c[1]][c[2]]) \in {Data, Check}
                    /\ Invert(m, c[1], c[2])}}

\* The bits mplan sets in the bitmap slice starting at byte `base`.
mplan(m, p, base) ==
    LET siz == p.Code.Size
    IN  {base * 8 + BitAt(p.Code.Stride, c[1], c[2]) :
           c \in {c \in (0..siz - 1) \X (0..siz - 1) :
                    IsMasked(p.Pixel[c[1]][c[2]]) /\ Invert(m, c[1], c[2])}}

(***************************************************************************)
(* NewPlan.                                                                 *)
(***************************************************************************)
NoPlan == [Version |-> 0]
Masks == 0..7

\* The rest of NewPlan, lp being what lplan returned: one masked copy of the
\* layout for a fixed mask, eight (one per mask, for Encode to pick from) for
\* mask -1.
PlanMasks(level, mask, lp) ==
    LET p == lp.plan
        sz == p.Code.Size * p.Code.Stride
    IN  IF lp.panic # "" THEN [err |-> "panic", plan |-> NoPlan]
        ELSE IF mask # -1
        THEN [err |-> "",
              plan |-> [p EXCEPT !.Mask = mask,
                                 !.Code.Bitmap = @ \cup fplan(level, mask, p, 0)
                                                   \cup mplan(mask, p, 0)]]
        ELSE [err |-> "",
              plan |-> [p EXCEPT !.Mask = -1,
                                 !.Code.Bitmap =
                                     UNION {{k * sz * 8 + b : b \in p.Code.Bitmap}
                                              \cup fplan(level, k, p, k * sz)
                                              \cup mplan(k, p, k * sz) : k \in Masks}]]

NewPlan(version, level, mask) ==
    IF version < MinVersion \/ version > MaxVersion THEN [err |-> "version", plan |-> NoPlan]
    ELSE IF level < L \/ level > H THEN [err |-> "level", plan |-> NoPlan]
    ELSE IF mask # -1 /\ (mask < 0 \/ 7 < mask) THEN [err |-> "mask", plan |-> NoPlan]
    ELSE PlanMasks(level, mask, lplan(version, level, vplan(version, IF mask = -1 THEN 8 ELSE 1)))

(***************************************************************************)
(* Bits: the bit writer.  b.b is the byte slice (1-indexed here), b.nbit    *)
(* the number of bits written.  uint is 64 bits wide; Write reads only the  *)
(* bits of v below nbit+8 and every caller passes nbit <= 16, so values     *)
(* are kept modulo 2^WordBits, which divides 2^64.                          *)
(***************************************************************************)
WordBits == 24
Word == 2 ^ WordBits

NewBits == [b |-> <<>>, nbit |-> 0]

\* TRUE of every writer.  TLC evaluates an operator's argument when it is first
\* read; testing Computed(b) in a loop makes it compute b at each iteration
\* rather than as one deep chain at the end.
Computed(b) == b.nbit >= 0

\* -n & 7
NegAnd7(n) == (8 - (n % 8)) % 8

\* Go's integer division, which truncates toward zero.
GoDiv(a, d) == IF a >= 0 THEN a \div d ELSE -((-a) \div d)

\* uint8(v >> sh << k)
ShiftByte(v, sh, k) == (((v \div (2 ^ sh)) % 256) * (2 ^ k)) % 256

\* One turn of Write's loop: n bits of v go into the last byte of bb, which
\* held nb bits before; sh := nbit - n bits are left for the next turn.
RECURSIVE Write(_, _, _)
WriteChunk(bb, nb, v, nbit, n) ==
    Write([b |-> [bb EXCEPT ![Len(bb)] =
                     OrW(bb[Len(bb)], ShiftByte(v, nbit - n, NegAnd7(nb + n)), 8)],
           nbit |-> nb + n],
          v - (v \div (2 ^ (nbit - n))) * (2 ^ (nbit - n)), nbit - n)

Write(b, v, nbit) ==
    IF nbit <= 0 THEN b
    ELSE IF b.nbit % 8 = 0
    THEN WriteChunk(Append(b.b, 0), b.nbit, v, nbit, Min(nbit, 8))
    ELSE WriteChunk(b.b, b.nbit, v, nbit, Min(Min(nbit, 8), NegAnd7(b.nbit)))

\* Bits.Append; the panic is "fractional byte".
AppendBytes(b, p) ==
    IF b.nbit % 8 # 0 THEN [b |-> b, panic |-> "fractional byte"]
    ELSE [b |-> [b |-> b.b \o p, nbit |-> b.nbit + 8 * Len(p)], panic |-> ""]

\* for i := 0; i < pad; i += 2 { Write(0xec, 8); if i+1 >= pad { break }; Write(0x11, 8) }
RECURSIVE PadBytes(_, _, _)
PadBytes(b, i, pad) ==
    IF i >= pad \/ ~Computed(b) THEN b
    ELSE IF i + 1 >= pad THEN Write(b, 236, 8)
    ELSE PadBytes(Write(Write(b, 236, 8), 17, 8), i + 2, pad)

\* Pad after its "b.Write(0, 4); n -= 4": b1 is the writer, n what is left.
PadAligned(b1, n) ==
    PadBytes(Write(b1, 0, NegAnd7(b1.nbit)), 0, GoDiv(n - NegAnd7(b1.nbit), 8))

Pad(b, n) ==
    IF n < 0 THEN [b |-> b, panic |-> "qr: invalid pad size"]
    ELSE IF n <= 4 THEN [b |-> Write(b, 0, n), panic |-> ""]
    ELSE [b |-> PadAligned(Write(b, 0, 4), n - 4), panic |-> ""]

(***************************************************************************)
(* The text encoders.  A segment is [mode, s]: s is the string's bytes      *)
(* (character codes).  For Kanji s is the string's characters, each given   *)
(* by what the Shift JIS encoder yields for it: hi*256 + lo for a two-byte  *)
(* code, the byte for a one-byte code, -1 for a character it rejects.       *)
(***************************************************************************)
numLen == <<10, 12, 14>>
alphaLen == <<9, 11, 13>>
stringLen == <<8, 16, 16>>
kanjiLen == <<8, 10, 12>>

\* "0123456789ABCDEFGHIJKLMNOPQRSTUVWXYZ $%*+-./:" as character codes.
alphabet ==
    <<48, 49, 50, 51, 52, 53, 54, 55, 56, 57,
      65, 66, 67, 68, 69, 70, 71, 72, 73, 74, 75, 76, 77, 78, 79, 80, 81, 82,
      83, 84, 85, 86, 87, 88, 89, 90,
      32, 36, 37, 42, 43, 45, 46, 47, 58>>

\* strings.IndexRune(alphabet, c)
AlphaIndex(c) ==
    IF \E i \in 1..Len(alphabet) : alphabet[i] = c
    THEN (CHOOSE i \in 1..Len(alphabet) : alphabet[i] = c) - 1
    ELSE -1

\* japanese.ShiftJIS.NewEncoder().String(s): the bytes, or an error.
ShiftJIS(s) ==
    LET RECURSIVE Cat(_)
        Cat(i) == IF i > Len(s) THEN <<>>
                  ELSE (IF s[i] < 256 THEN <<s[i]>> ELSE <<s[i] \div 256, s[i] % 256>>)
                       \o Cat(i + 1)
    IN  IF \E i \in 1..Len(s) : s[i] < 0
        THEN [k |-> <<>>, err |-> TRUE]
        ELSE [k |-> Cat(1), err |-> FALSE]

\* Encoding.Check: TRUE when it returns nil.
CheckText(t) ==
    CASE t.mode = "Num" -> \A i \in 1..Len(t.s) : ~(t.s[i] < 48 \/ 57 < t.s[i])
      [] t.mode = "Alpha" -> \A i \in 1..Len(t.s) : AlphaIndex(t.s[i]) >= 0
      [] t.mode = "String" -> TRUE
      [] t.mode = "Kanji" -> ~ShiftJIS(t.s).err

RECURSIVE NumGroups(_, _, _)
NumGroups(b, s, i) ==
    IF i + 3 <= Len(s) /\ Computed(b)
    THEN NumGroups(Write(b, (s[i + 1] - 48) * 100 + (s[i + 2] - 48) * 10 + (s[i + 3] - 48), 10),
                   s, i + 3)
    ELSE IF Len(s) - i = 1 THEN Write(b, s[i + 1] - 48, 4)
    ELSE IF Len(s) - i = 2 THEN Write(b, (s[i + 1] - 48) * 10 + (s[i + 2] - 48), 7)
    ELSE b

NumEncode(b, s, v) ==
    NumGroups(Write(Write(b, 1, 4), Len(s), numLen[sizeClass(v) + 1]), s, 0)

RECURSIVE AlphaPairs(_, _, _)
AlphaPairs(b, s, i) ==
    IF i + 2 <= Len(s) /\ Computed(b)
    THEN AlphaPairs(Write(b, AlphaIndex(s[i + 1]) * 45 + AlphaIndex(s[i + 2]), 11), s, i + 2)
    ELSE IF i < Len(s) THEN Write(b, AlphaIndex(s[i + 1]), 6)
    ELSE b

AlphaEncode(b, s, v) ==
    AlphaPairs(Write(Write(b, 2, 4), Len(s), alphaLen[sizeClass(v) + 1]), s, 0)

RECURSIVE StringBytes(_, _, _)
StringBytes(b, s, i) ==
    IF i < Len(s) /\ Computed(b) THEN StringBytes(Write(b, s[i + 1], 8), s, i + 1) ELSE b

StringEncode(b, s, v) ==
    StringBytes(Write(Write(b, 4, 4), Len(s), stringLen[sizeClass(v) + 1]), s, 0)

\* w := uint(k[i]&^0xc0)*0xc0 + uint(k[i+1]) - 0x100, which wraps below zero.
RECURSIVE KanjiPairs(_, _, _)
KanjiPairs(b, k, i) ==
    IF i < Len(k) /\ Computed(b)
    THEN KanjiPairs(Write(b, ((k[i + 1] % 64) * 192 + k[i + 2] + Word - 256) % Word, 13),
                    k, i + 2)
    ELSE b

\* Kanji.Encode.  With err == nil and an odd len(k) the code evaluates
\* err.Error() on a nil error: a nil-pointer panic.
KanjiEncode(b, s, v) ==
    LET e == ShiftJIS(s)
    IN  IF e.err THEN [b |-> b, panic |-> ""]
        ELSE IF Len(e.k) % 2 # 0 THEN [b |-> b, panic |-> "nil pointer dereference"]
        ELSE [b |-> KanjiPairs(Write(Write(b, 8, 4), Len(e.k) \div 2,
                                     kanjiLen[sizeClass(v) + 1]), e.k, 0),
              panic |-> ""]

\* Encoding.Encode(b, v).
EncodeText(t, b, v) ==
    CASE t.mode = "Num" -> [b |-> NumEncode(b, t.s, v), panic |-> ""]
      [] t.mode = "Alpha" -> [b |-> AlphaEncode(b, t.s, v), panic |-> ""]
      [] t.mode = "String" -> [b |-> StringEncode(b, t.s, v), panic |-> ""]
      [] t.mode = "Kanji" -> KanjiEncode(b, t.s, v)

(***************************************************************************)
(* Reed-Solomon check bytes over GF(256) (package gf256: Field =            *)
(* NewField(0x11d, 2), NewRSEncoder(Field, c).ECC(data, check)): the        *)
(* remainder of data(x) * x^c modulo the product of (x - 2^i), i < c.       *)
(***************************************************************************)
gfPoly == 285     \* 0x11d

\* Multiplication by 2 (by x) in the field.
gfDouble(a) == IF 2 * a >= 256 THEN XorW(2 * a, gfPoly, 9) ELSE 2 * a

\* The field's tables: gfExps[i + 1] = 2^i for i < 255, and gfLogs[a] the i
\* with 2^i = a.
\* (Four powers are added at a time.)
gfFour(s, a) ==
    s \o <<gfDouble(a), gfDouble(gfDouble(a)), gfDouble(gfDouble(gfDouble(a))),
           gfDouble(gfDouble(gfDouble(gfDouble(a))))>>
RECURSIVE gfPowers(_)
gfPowers(s) == IF Len(s) >= 255 THEN s ELSE gfPowers(gfFour(s, s[Len(s)]))
gfExps == gfPowers(<<1>>)
gfLogs == [a \in 1..255 |-> CHOOSE i \in 0..254 : gfExps[i + 1] = a] @@ <<>>

\* a * b in the field.
gfMul(a, b) ==
    IF a = 0 \/ b = 0 THEN 0 ELSE gfExps[((gfLogs[a] + gfLogs[b]) % 255) + 1]

\* 2^i in the field.
gfExp(i) == gfExps[(i % 255) + 1]

\* The generator polynomial, highest coefficient first (monic, c+1 coefficients):
\* g(x) * (x - 2^i) for i = 0..c-1.
\* g(x) * (x - e).
rsGenTimes(g, e) ==
    [j \in 1..Len(g) + 1 |->
        XorW(IF j <= Len(g) THEN g[j] ELSE 0,
             IF j >= 2 THEN gfMul(g[j - 1], e) ELSE 0, 8)] \o <<>>

RECURSIVE rsGen(_, _, _)
rsGen(g, i, c) ==
    IF i >= c \/ Len(g) = 0 THEN g
    ELSE rsGen(rsGenTimes(g, gfExp(i)), i + 1, c)

\* Long division: one data byte at a time, rem the c-byte remainder so far,
\* f the coefficient being cancelled.
rsDivideStep(rem, f, gen) ==
    [j \in 1..Len(rem) |->
        XorW(IF j < Len(rem) THEN rem[j + 1] ELSE 0, gfMul(f, gen[j + 1]), 8)] \o <<>>

RECURSIVE rsDivide(_, _, _, _)
rsDivide(rem, data, i, gen) ==
    IF i > Len(data) \/ Len(rem) = 0 THEN rem
    ELSE rsDivide(rsDivideStep(rem, XorW(data[i], rem[1], 8), gen), data, i + 1, gen)

ECC(data, c) == rsDivide([j \in 1..c |-> 0] \o <<>>, data, 1, rsGen(<<1>>, 0, c))

(***************************************************************************)
(* AddCheckBytes.                                                           *)
(***************************************************************************)
SubSeqFrom(s, from, n) == SubSeq(s, from + 1, from + n)

\* for i := 0; i < nblock; i++ { if i == nblock-extra { db++ }; ECC; Append; dat = dat[db:] }
\* r is what b.Append(chk) left; dat[at:] is the data of the blocks to come.
RECURSIVE CheckBlocks(_, _, _, _, _, _, _)
CheckAppended(r, dat, at, db, i, lev, extra) ==
    IF r.panic # "" THEN r
    ELSE CheckBlocks(r.b, dat, at, db, i, lev, extra)

CheckBlocks(b, dat, at, db, i, lev, extra) ==
    IF i >= lev.nblock THEN [b |-> b, panic |-> ""]
    ELSE LET db1 == IF i = lev.nblock - extra THEN db + 1 ELSE db
         IN  CheckAppended(AppendBytes(b, ECC(SubSeqFrom(dat, at, db1), lev.check)),
                           dat, at + db1, db1, i + 1, lev, extra)

\* The end of AddCheckBytes: r is the writer after the loop, bytes is vt.bytes.
CheckedLength(r, bytes, padbits) ==
    [b |-> r.b, padbits |-> padbits,
     panic |-> IF r.panic # "" THEN r.panic
               ELSE IF r.b.nbit % 8 # 0 THEN "fractional byte"
               ELSE IF Len(r.b.b) # bytes THEN "qr: internal error"
               ELSE ""]

\* AddCheckBytes after its call of Pad: padded is the writer then, nd the
\* version's data bytes, lev and bytes its vtab entry's.  padbits records the
\* bit count Pad left.
AddCheckPadded(padded, nd, lev, bytes) ==
    IF padded.panic # ""
    THEN [b |-> padded.b, panic |-> padded.panic, padbits |-> padded.b.nbit]
    ELSE IF padded.b.nbit # nd * 8
    THEN [b |-> padded.b, panic |-> "qr: too much data", padbits |-> padded.b.nbit]
    ELSE CheckedLength(CheckBlocks(padded.b, padded.b.b, 0, nd \div lev.nblock, 0, lev,
                                   nd % lev.nblock),
                       bytes, padded.b.nbit)

AddCheckData(b, nd, lev, bytes) ==
    AddCheckPadded(IF b.nbit < nd * 8 THEN Pad(b, nd * 8 - b.nbit)
                   ELSE [b |-> b, panic |-> ""],
                   nd, lev, bytes)

AddCheckBytes(b, v, l) ==
    AddCheckData(b, DataBytes(v, l), vtab[v].level[l + 1], vtab[v].bytes)

(***************************************************************************)
(* Code.Black and Code.Penalty.  A Code is [Bitmap, Size, Stride].          *)
(***************************************************************************)
Black(c, x, y) ==
    /\ 0 <= x /\ x < c.Size /\ 0 <= y /\ y < c.Size
    /\ BitAt(c.Stride, y, x) \in c.Bitmap

MinRun == 5
RunPDelta == -2
BoxPP == 3
FindPP == 40
BalPP == 10
BalPMul == 20
BalPMax == (BalPMul \div 2) - 1
pShift == 16 - 12
FindB == 186 * (2 ^ pShift)      \* 0b0000_1011101_0 << pShift
FindA == 1488 * (2 ^ pShift)     \* 0b0_1011101_0000 << pShift

\* uint16 shift left by k.
Shl16(pat, k) == (pat * (2 ^ k)) % 65536
\* pat |= 1 << pShift
SetPixelBit(pat) == IF BitOf(pat, pShift) = 1 THEN pat ELSE pat + 2 ^ pShift

\* The start of a scan line: the state after its first pixel.
ScanStart(first) ==
    [black |-> first, r |-> 1, pat |-> IF first THEN 2 ^ pShift ELSE 0,
     p |-> 0, bal |-> IF first THEN 1 ELSE 0]

\* One pixel of a scan line: cur is the pixel, box says that the two pixels of
\* the previous row above it and before it have the colour of the run.
\* black is the colour of the run after the pixel, r its length before it,
\* pat the shifted pattern and p1 the penalty after the run and box tests.
ScanPattern(s, black, r, pat, p1) ==
    [black |-> black, r |-> r + 1, pat |-> pat,
     p |-> IF ~black /\ (pat = FindB \/ pat = FindA) THEN p1 + FindPP ELSE p1,
     bal |-> IF black THEN s.bal + 1 ELSE s.bal]

ScanStep(s, cur, box) ==
    IF cur # s.black
    THEN ScanPattern(s, ~s.black, 0,
                     IF ~s.black THEN SetPixelBit(Shl16(s.pat, 1)) ELSE Shl16(s.pat, 1),
                     IF s.r >= MinRun THEN s.p + s.r + RunPDelta ELSE s.p)
    ELSE ScanPattern(s, s.black, s.r,
                     IF s.black THEN SetPixelBit(Shl16(s.pat, 1)) ELSE Shl16(s.pat, 1),
                     IF box THEN s.p + BoxPP ELSE s.p)

\* A scan that ends with the last run and looks for no pattern that reaches
\* into the quiet zone after the line.
ScanEndInside(s) ==
    [s EXCEPT !.p = IF s.r >= MinRun THEN s.p + s.r + RunPDelta ELSE s.p]

\* After the last pixel: the last run, and finder patterns that end in the
\* quiet zone.
ScanEnd(s) ==
    LET p1 == IF s.r >= MinRun THEN s.p + s.r + RunPDelta ELSE s.p
        pat == Shl16(s.pat, 1)
    IN  [s EXCEPT !.p = IF pat = FindB THEN p1 + 2 * FindPP
                        ELSE IF FindA \in {pat, Shl16(pat, 1), Shl16(pat, 2), Shl16(pat, 3)}
                        THEN p1 + FindPP
                        ELSE p1]

\* Row y from pixel x on.
RECURSIVE ScanRow(_, _, _, _)
ScanRow(c, y, x, s) ==
    IF x >= c.Size THEN ScanEnd(s)
    ELSE IF s.r <= 0 THEN s
    ELSE ScanRow(c, y, x + 1,
                 ScanStep(s, Black(c, x, y),
                          y # 0 /\ Black(c, x - 1, y - 1) = s.black
                                /\ Black(c, x, y - 1) = s.black))

\* Column x from pixel y on: no boxes, and the black count is not used.
RECURSIVE ScanCol(_, _, _, _)
ScanCol(c, x, y, s) ==
    IF y >= c.Size THEN ScanEnd(s)
    ELSE IF s.r <= 0 THEN s
    ELSE ScanCol(c, x, y + 1, ScanStep(s, Black(c, x, y), FALSE))

\* The scan of row y and of column x, whole.
RowScan(c, y) == ScanRow(c, y, 1, ScanStart(Black(c, 0, y)))
ColScan(c, x) == ScanCol(c, x, 1, ScanStart(Black(c, x, 0)))

\* The sums over the rows (penalty and black count) and over the columns
\* (penalty) lo..hi, split in halves.
AddTotals(a, b) == [p |-> a.p + b.p, bal |-> a.bal + b.bal]

RECURSIVE SumRows(_, _, _)
SumRows(c, lo, hi) ==
    IF lo > hi THEN [p |-> 0, bal |-> 0]
    ELSE IF lo = hi THEN AddTotals(RowScan(c, lo), [p |-> 0, bal |-> 0])
    ELSE AddTotals(SumRows(c, lo, (lo + hi) \div 2), SumRows(c, ((lo + hi) \div 2) + 1, hi))

RECURSIVE SumCols(_, _, _)
SumCols(c, lo, hi) ==
    IF lo > hi THEN 0
    ELSE IF lo = hi THEN ColScan(c, lo).p
    ELSE SumCols(c, lo, (lo + hi) \div 2) + SumCols(c, ((lo + hi) \div 2) + 1, hi)

BalanceP(bal0, sq) ==
    LET bal == IF bal0 > sq \div 2 THEN sq - bal0 ELSE bal0
    IN  (BalPMax - ((bal * BalPMul) \div sq)) * BalPP

\* h the totals of the horizontal scan, v the penalty of the vertical one.
PenaltyTotal(h, sq, v) == h.p + BalanceP(h.bal, sq) + v

Penalty(c) ==
    PenaltyTotal(SumRows(c, 0, c.Size - 1), c.Size * c.Size, SumCols(c, 0, c.Size - 1))

(***************************************************************************)
(* Plan.Encode.                                                             *)
(***************************************************************************)
SymDiff(a, b) == (a \ b) \cup (b \ a)

\* The loop over text: Check then Encode, in order; the first failing Check
\* ends it with an error.
RECURSIVE EncodeTexts(_, _, _, _)
\* r is what t.Encode(&b, p.Version) left of text[i-1].
EncodedText(r, text, i, v) ==
    IF r.panic # "" THEN [b |-> r.b, err |-> "", panic |-> r.panic]
    ELSE EncodeTexts(r.b, text, i, v)

EncodeTexts(b, text, i, v) ==
    IF i > Len(text) THEN [b |-> b, err |-> "", panic |-> ""]
    ELSE IF ~CheckText(text[i]) THEN [b |-> b, err |-> "check", panic |-> ""]
    ELSE EncodedText(EncodeText(text[i], b, v), text, i + 1, v)

\* The codeword bytes: text, capacity check, AddCheckBytes.  padbits is the
\* bit count after AddCheckBytes padded, NotPadded when it was not entered.
NotPadded == 0 - 1
WithCheckBytes(a) == [b |-> a.b, err |-> "", panic |-> a.panic, padbits |-> a.padbits]

\* t is what the loop over text left.
EncodeChecked(p, t) ==
    IF t.err # "" \/ t.panic # ""
    THEN [b |-> t.b, err |-> t.err, panic |-> t.panic, padbits |-> NotPadded]
    ELSE IF t.b.nbit > p.DataBytes * 8
    THEN [b |-> t.b, err |-> "capacity", panic |-> "", padbits |-> NotPadded]
    ELSE WithCheckBytes(AddCheckBytes(t.b, p.Version, p.Level))

EncodeBytes(p, text) == EncodeChecked(p, EncodeTexts(NewBits, text, 1, p.Version))

\* The data bitmap: a copy of the plan's bitmap (one mask) or zeros (eight),
\* with the pixel of every set Data/Check bit flipped.
OneMask(p) == p.Code.Size * p.Code.Stride = p.Code.Len

\* data := make(...); if len(data) == len(p.Code.Bitmap) { copy(data, p.Code.Bitmap) }
CopiedBitmap(p) == IF OneMask(p) THEN p.Code.Bitmap ELSE {}

\* The bits of the bitmap the loop over p.Pixel flips: those of the Data and
\* Check pixels whose bit of bytes is set.
SetCells(p, bytes) ==
    LET siz == p.Code.Size
        set == {c \in (0..siz - 1) \X (0..siz - 1) :
                  LET pix == p.Pixel[c[1]][c[2]]
                  IN  /\ Role(pix) = Data \/ Role(pix) = Check
                      /\ BitOf(bytes[(Offset(pix) \div 8) + 1], 7 - (Offset(pix) % 8)) = 1}
    IN  {BitAt(p.Code.Stride, c[1], c[2]) : c \in set}

PlaceData(p, bytes) == SymDiff(CopiedBitmap(p), SetCells(p, bytes))

\* The k-th sz-byte slice of the plan's bitmap.
PlanSlice(p, k) ==
    LET n == p.Code.Size * p.Code.Stride * 8
    IN  {b - k * n : b \in {b \in p.Code.Bitmap : k * n <= b /\ b < (k + 1) * n}}

\* A comparison that lets a later mask of equal penalty replace the best so
\* far, and one that keeps whichever mask came last.
BetterOrEqual(p, pen) == p <= pen
BetterAlways(p, pen) == TRUE

\* if p := c.Penalty(); p < pen { best, pen, c.Bitmap = c.Bitmap, p, best }
Better(p, pen) == p < pen

\* The mask loop, from slice k on: the best bitmap so far and its penalty.
RECURSIVE BestMask(_, _, _, _, _)
\* cand is the bitmap of slice k-1 with the data in it, pn its penalty.
BestOf(p, data, k, best, pen, cand, pn) ==
    IF Better(pn, pen) THEN BestMask(p, data, k, cand, pn)
    ELSE BestMask(p, data, k, best, pen)

MaskedPenalty(p, data, k, best, pen, cand) ==
    BestOf(p, data, k, best, pen, cand,
           Penalty([Bitmap |-> cand, Size |-> p.Code.Size, Stride |-> p.Code.Stride]))

BestMask(p, data, k, best, pen) ==
    IF k * p.Code.Size * p.Code.Stride >= p.Code.Len THEN best
    ELSE MaskedPenalty(p, data, k + 1, best, pen, SymDiff(PlanSlice(p, k), data))

\* largest penalty is < 2<<23
InitialPen == 2147483647

SelectMask(p, data) ==
    [Size |-> p.Code.Size, Stride |-> p.Code.Stride,
     Bitmap |-> IF OneMask(p) THEN data
                ELSE BestMask(p, data, 0, {}, InitialPen)]

NoCode == [Size |-> 0]

\* Plan.Encode(text...): the Code and the error, or a panic.
\* e is the codeword bytes, or the error or panic that ended Encode early.
PlanEncoded(p, e) ==
    IF e.err # "" \/ e.panic # ""
    THEN [code |-> NoCode, err |-> e.err, panic |-> e.panic, padbits |-> e.padbits,
          bytes |-> Len(e.b.b)]
    ELSE [code |-> SelectMask(p, PlaceData(p, e.b.b)), err |-> "", panic |-> "",
          padbits |-> e.padbits, bytes |-> Len(e.b.b)]

PlanEncode(p, text) == PlanEncoded(p, EncodeBytes(p, text))

(***************************************************************************)
(* The state.                                                               *)
(*   req    the arguments NewPlan was called with (NoReq before)            *)
(*   plan   the Plan NewPlan returned (NoPlan before), planErr its error    *)
(*   calls  per caller, the Plan.Encode call it is in or has returned from  *)
(*   autoPlans  the cache slots of makeAutoPlan, gor the goroutines using   *)
(*          them                                                            *)
(*   bits   a Bits writer, padded the last Pad applied to it, written the   *)
(*          last Write                                                     *)
(*   image  a Code made by hand, pen the last Penalty computed for it       *)
(*   sized  the last Encode of a payload given by the lengths of its parts  *)
(***************************************************************************)
VARIABLES req, plan, planErr, calls, autoPlans, gor, bits, padded, written,
          image, pen, sized

planVars == <<req, plan, planErr>>
autoVars == <<autoPlans, gor>>
bitsVars == <<bits, padded, written>>
penVars == <<image, pen>>
vars == <<planVars, calls, autoVars, bitsVars, penVars, sized>>

\* Bounds: the versions plans are built for when codes are encoded from them,
\* and when only the plan is built.
MaxEncodeVersion == 2
MaxPlanVersion == 14

\* Character codes used in the payloads.
Digits01234567 == <<48, 49, 50, 51, 52, 53, 54, 55>>
\* Shift JIS: a two-byte character, a one-byte (ASCII) character, and a
\* character the encoder rejects.
KanjiTen == 147 * 256 + 95
KanjiMatsu == 228 * 256 + 170
KanjiAscii == 97
KanjiNone == 0 - 1

Seg(mode, s) == [mode |-> mode, s |-> s]

\* The payloads Encode is called with.
Texts ==
    { <<Seg("Num", Digits01234567)>>,
      <<Seg("Alpha", <<65, 67, 45, 52, 50>>)>>,
      <<Seg("String", <<104, 105>>)>>,
      <<Seg("Kanji", <<KanjiTen, KanjiMatsu>>)>>,
      <<Seg("Num", <<49, 50>>), Seg("String", <<97>>)>>,
      <<Seg("Num", <<49, 65>>)>>,
      <<Seg("String", <<97>>), Seg("Alpha", <<97>>)>>,
      <<Seg("String", [i \in 1..20 |-> 96 + i] \o <<>>)>>,
      <<Seg("String", [i \in 1..10 |-> 47 + i] \o <<>>), Seg("String", <<>>)>>,
      <<Seg("String", [i \in 1..7 |-> 64 + i] \o <<>>)>>,
      <<Seg("Kanji", <<KanjiAscii>>)>>,
      <<Seg("Kanji", <<KanjiTen, KanjiNone>>)>>,
      <<Seg("Num", <<56, 56>>)>>,
      <<>> }

Idle == [pc |-> "idle"]

NoReq == [version |-> 0]

InitPlan ==
    /\ req = NoReq
    /\ plan = NoPlan
    /\ planErr = ""

\* The cache: one slot per level of version 1, the pointer nil and the Once
\* unused.  built counts the executions of NewPlan for the slot.
MaxGoroutines == 2
AutoLevels == {L}
FreshSlot == [p |-> NoPlan, once |-> "fresh", built |-> 0]
GIdle(synced) == [pc |-> "idle", synced |-> synced]

InitAuto ==
    /\ autoPlans = [l \in AutoLevels |-> FreshSlot]
    /\ gor = [g \in 1..MaxGoroutines |-> GIdle({})]

\* var b Bits
NoPad == [done |-> FALSE, n |-> 0, before |-> NewBits, panic |-> ""]
NoWrite == [done |-> FALSE, v |-> 0, nbit |-> 0, before |-> NewBits]
InitBits ==
    /\ bits = NewBits
    /\ padded = NoPad
    /\ written = NoWrite

\* var c Code
ZeroCode == [Bitmap |-> {}, Size |-> 0, Stride |-> 0]
NoPen == [done |-> FALSE, p |-> 0]
InitPen ==
    /\ image = ZeroCode
    /\ pen = NoPen

\* No Encode of a payload given by lengths yet.
NoSized == [done |-> FALSE, version |-> 0, level |-> 0, text |-> <<>>, nbit |-> 0,
            err |-> "", heads |-> <<>>]

Init ==
    /\ InitPlan
    /\ calls = [c \in {1} |-> Idle]
    /\ InitAuto
    /\ InitBits
    /\ InitPen
    /\ sized = NoSized

\* The program calls NewPlan(version, level, mask).
CallNewPlan(maxv, levels, masks) ==
    /\ req = NoReq
    /\ \E v \in MinVersion..maxv, l \in levels, m \in masks :
          req' = [version |-> v, level |-> l, mask |-> m]
    /\ UNCHANGED <<plan, planErr, calls, autoVars, bitsVars, penVars, sized>>

\* p, err := NewPlan(version, level, mask)
DoNewPlan ==
    /\ req # NoReq
    /\ plan = NoPlan
    /\ planErr = ""
    /\ \E r \in {NewPlan(req.version, req.level, req.mask)} :
          /\ plan' = r.plan
          /\ planErr' = r.err
    /\ UNCHANGED <<req, calls, autoVars, bitsVars, penVars, sized>>

\* code, err := plan.Encode(text...), as one step.
DoEncode(c) ==
    /\ plan # NoPlan
    /\ calls[c].pc = "idle"
    /\ \E text \in Texts :
          \E r \in {PlanEncode(plan, text)} :
              calls' = [calls EXCEPT ![c] =
                          [pc |-> "done", text |-> text, code |-> r.code, err |-> r.err,
                           panic |-> r.panic, padbits |-> r.padbits, bytes |-> r.bytes]]
    /\ UNCHANGED <<planVars, autoVars, bitsVars, penVars, sized>>

\* The caller takes the result; a panic ended the program.
DoReturn(c) ==
    /\ calls[c].pc = "done"
    /\ calls[c].panic = ""
    /\ calls' = [calls EXCEPT ![c] = Idle]
    /\ UNCHANGED <<planVars, autoVars, bitsVars, penVars, sized>>

Next ==
    \/ CallNewPlan(MaxEncodeVersion, Levels, -1..7)
    \/ DoNewPlan
    \/ \E c \in DOMAIN calls : DoEncode(c)
    \/ \E c \in DOMAIN calls : DoReturn(c)

Spec == Init /\ [][Next]_vars

\* Plans only: NewPlan for every version up to MaxPlanVersion.
NextPlan ==
    \/ CallNewPlan(MaxPlanVersion, Levels, -1..7)
    \/ DoNewPlan
SpecPlan == Init /\ [][NextPlan]_vars

(***************************************************************************)
(* Plan.Encode step by step, for callers that share the Plan.  Every step   *)
(* reads the Plan as it is when the step is taken.                          *)
(***************************************************************************)
ConcTexts ==
    { <<Seg("Num", <<49, 50>>)>>,
      <<Seg("String", <<104, 105>>), Seg("Alpha", <<65, 49>>)>>,
      <<Seg("Num", <<49, 65>>)>> }

InitConc ==
    /\ InitPlan
    /\ calls = [c \in {1, 2} |-> Idle]
    /\ InitAuto
    /\ InitBits
    /\ InitPen
    /\ sized = NoSized

\* Lines 664-676: the loop over text, the capacity check and AddCheckBytes.
EncBegin(c) ==
    /\ plan # NoPlan
    /\ calls[c].pc = "idle"
    /\ \E text \in ConcTexts :
          \E e \in {EncodeBytes(plan, text)} :
              calls' = [calls EXCEPT ![c] =
                  IF e.err # "" \/ e.panic # ""
                  THEN [pc |-> "done", text |-> text, code |-> NoCode, err |-> e.err,
                        panic |-> e.panic, padbits |-> e.padbits, bytes |-> Len(e.b.b)]
                  ELSE [pc |-> "bytes", text |-> text, b |-> e.b.b, padbits |-> e.padbits]]
    /\ UNCHANGED <<planVars, autoVars, bitsVars, penVars, sized>>

\* An Encode that, for one mask, would work in the Plan's bitmap itself.
DataBufferShared(p) == IF OneMask(p) THEN "plan" ELSE "own"
\* The memory data refers to: data := make([]byte, ...), a buffer the call has
\* made for itself, never the Plan's bitmap.
DataBuffer(p) == "own"

\* Lines 680-683: data := make(...), and the copy of the bitmap for one mask.
EncAlloc(c) ==
    /\ calls[c].pc = "bytes"
    /\ calls' = [calls EXCEPT ![c] =
                    [pc |-> "alloc", text |-> calls[c].text, b |-> calls[c].b,
                     padbits |-> calls[c].padbits, data |-> DataBuffer(plan),
                     buf |-> CopiedBitmap(plan)]]
    /\ UNCHANGED <<planVars, autoVars, bitsVars, penVars, sized>>

\* Lines 684-696: the data and check bits are xored into data.
EncPlace(c) ==
    /\ calls[c].pc = "alloc"
    /\ \E flip \in {SetCells(plan, calls[c].b)} :
          IF calls[c].data = "plan"
          THEN /\ plan' = [plan EXCEPT !.Code.Bitmap = SymDiff(@, flip)]
               /\ calls' = [calls EXCEPT ![c].pc = "placed"]
          ELSE /\ calls' = [calls EXCEPT ![c].pc = "placed",
                                         ![c].buf = SymDiff(@, flip)]
               /\ UNCHANGED plan
    /\ UNCHANGED <<req, planErr, autoVars, bitsVars, penVars, sized>>

\* Lines 698-719: the Code, for eight masks the one of least penalty.
EncSelect(c) ==
    /\ calls[c].pc = "placed"
    /\ \E code \in {SelectMask(plan, IF calls[c].data = "plan" THEN plan.Code.Bitmap
                                     ELSE calls[c].buf)} :
          calls' = [calls EXCEPT ![c] =
                      [pc |-> "done", text |-> calls[c].text, code |-> code, err |-> "",
                       panic |-> "", padbits |-> calls[c].padbits,
                       bytes |-> Len(calls[c].b)]]
    /\ UNCHANGED <<planVars, autoVars, bitsVars, penVars, sized>>

ConcMasks == {-1, 2}

NextConc ==
    \/ CallNewPlan(MaxEncodeVersion, {L, Q}, ConcMasks)
    \/ DoNewPlan
    \/ \E c \in DOMAIN calls : EncBegin(c)
    \/ \E c \in DOMAIN calls : EncAlloc(c)
    \/ \E c \in DOMAIN calls : EncPlace(c)
    \/ \E c \in DOMAIN calls : EncSelect(c)
    \/ \E c \in DOMAIN calls : DoReturn(c)

SpecConc == InitConc /\ [][NextConc]_vars

(***************************************************************************)
(* The plan cache: makeAutoPlan and its callers NewAutoPlan,                *)
(* AutoPlan.Encode and Encode, one step per access to the slot.             *)
(***************************************************************************)
AutoKinds == {"NewAutoPlan", "AutoPlan.Encode", "Encode"}
AutoVersions == {MinVersion - 1, MinVersion}
AutoTexts == {<<Seg("Num", <<49, 50>>)>>}

\* What a read of p.p by goroutine g can observe.  A goroutine that has
\* returned from once.Do on the slot has the write at line 594 before it in
\* happens-before order and sees the pointer and the Plan behind it.  The
\* reads at lines 592 and 597 of any other goroutine race with that write:
\* before the write they see nil; after it the memory model lets them see nil,
\* or the pointer with the Plan's fields not yet visible, or the whole Plan.
Observable(g, l) ==
    IF l \in gor[g].synced THEN {"complete"}
    ELSE IF autoPlans[l].p = NoPlan THEN {"nil"}
    ELSE {"nil", "partial", "complete"}

\* A goroutine calls one of the three entry points; makeAutoPlan validates
\* version and level and takes the slot's address (lines 585-591).
AutoCall(g) ==
    /\ gor[g].pc = "idle"
    /\ \E kind \in AutoKinds, v \in AutoVersions, l \in AutoLevels \cup {H + 1},
          text \in AutoTexts :
          gor' = [gor EXCEPT ![g] =
                    [pc |-> IF v < MinVersion \/ v > MaxVersion \/ l < L \/ l > H
                            THEN "done" ELSE "check",
                     kind |-> kind, version |-> v, level |-> l, text |-> text,
                     synced |-> gor[g].synced, got |-> "none",
                     err |-> IF v < MinVersion \/ v > MaxVersion THEN "invalid QR version"
                             ELSE IF l < L \/ l > H THEN "invalid QR level" ELSE "",
                     panic |-> "", code |-> NoCode]]
    /\ UNCHANGED <<autoPlans, planVars, calls, bitsVars, penVars, sized>>

\* if p.p == nil
AutoCheck(g) ==
    /\ gor[g].pc = "check"
    /\ \E o \in Observable(g, gor[g].level) :
          gor' = [gor EXCEPT ![g].pc = IF o = "nil" THEN "once" ELSE "ret"]
    /\ UNCHANGED <<autoPlans, planVars, calls, bitsVars, penVars, sized>>

\* p.once.Do: the first caller runs f, a caller arriving while f runs waits,
\* a caller arriving after f returned goes on.
AutoOnceDo(g) ==
    /\ gor[g].pc = "once"
    /\ \/ /\ autoPlans[gor[g].level].once = "fresh"
          /\ autoPlans' = [autoPlans EXCEPT ![gor[g].level].once = "running"]
          /\ gor' = [gor EXCEPT ![g].pc = "build"]
       \/ /\ autoPlans[gor[g].level].once = "done"
          /\ gor' = [gor EXCEPT ![g].pc = "ret",
                                ![g].synced = @ \cup {gor[g].level}]
          /\ UNCHANGED autoPlans
    /\ UNCHANGED <<planVars, calls, bitsVars, penVars, sized>>

\* p.p, _ = NewPlan(version, level, -1)
AutoBuild(g) ==
    /\ gor[g].pc = "build"
    /\ \E r \in {NewPlan(gor[g].version, gor[g].level, -1)} :
          autoPlans' = [autoPlans EXCEPT ![gor[g].level].p = r.plan,
                                         ![gor[g].level].built = @ + 1]
    /\ gor' = [gor EXCEPT ![g].pc = "built"]
    /\ UNCHANGED <<planVars, calls, bitsVars, penVars, sized>>

\* f returned: once.Do marks the Once done and returns.
AutoOnceDone(g) ==
    /\ gor[g].pc = "built"
    /\ autoPlans' = [autoPlans EXCEPT ![gor[g].level].once = "done"]
    /\ gor' = [gor EXCEPT ![g].pc = "ret", ![g].synced = @ \cup {gor[g].level}]
    /\ UNCHANGED <<planVars, calls, bitsVars, penVars, sized>>

\* What the caller does with the Plan it got.  NewAutoPlan looks at the error
\* only; the Encode entry points call p.Encode(text...), which dereferences p.
Used(e) == [code |-> e.code, err |-> e.err, panic |-> e.panic]
UsePlan(kind, got, p, text) ==
    IF kind = "NewAutoPlan" THEN [code |-> NoCode, err |-> "", panic |-> ""]
    ELSE IF got = "nil" THEN [code |-> NoCode, err |-> "", panic |-> "nil pointer dereference"]
    ELSE IF got = "partial" THEN [code |-> NoCode, err |-> "", panic |-> "undefined"]
    ELSE Used(PlanEncode(p, text))

\* return p.p, nil, and the caller's use of the result.
AutoReturn(g) ==
    /\ gor[g].pc = "ret"
    /\ \E o \in Observable(g, gor[g].level) :
          \E r \in {UsePlan(gor[g].kind, o, autoPlans[gor[g].level].p, gor[g].text)} :
              gor' = [gor EXCEPT ![g].pc = "done", ![g].got = o, ![g].code = r.code,
                                 ![g].err = r.err, ![g].panic = r.panic]
    /\ UNCHANGED <<autoPlans, planVars, calls, bitsVars, penVars, sized>>

\* The call has returned; the goroutine may call again.
AutoDone(g) ==
    /\ gor[g].pc = "done"
    /\ gor[g].panic = ""
    /\ gor' = [gor EXCEPT ![g] = GIdle(gor[g].synced)]
    /\ UNCHANGED <<autoPlans, planVars, calls, bitsVars, penVars, sized>>

NextAuto ==
    \/ \E g \in DOMAIN gor : AutoCall(g)
    \/ \E g \in DOMAIN gor : AutoCheck(g)
    \/ \E g \in DOMAIN gor : AutoOnceDo(g)
    \/ \E g \in DOMAIN gor : AutoBuild(g)
    \/ \E g \in DOMAIN gor : AutoOnceDone(g)
    \/ \E g \in DOMAIN gor : AutoReturn(g)
    \/ \E g \in DOMAIN gor : AutoDone(g)

SpecAuto == Init /\ [][NextAuto]_vars

(***************************************************************************)
(* A Bits writer on its own: Write and Pad.                                 *)
(***************************************************************************)
MaxWriterBits == 9
MaxWriteBits == 3
MaxPad == 20

\* b.Write(v, nbit), with values that fit nbit bits and values that do not;
\* written keeps the writer as it was and what Write was given.
BitsWrite ==
    /\ padded.panic = ""
    /\ \E nbit \in 0..MaxWriteBits :
          /\ bits.nbit + nbit <= MaxWriterBits
          /\ \E v \in {1, (2 ^ nbit) - 1, (2 ^ nbit) + 1, 255} :
                /\ bits' = [b |-> Write(bits, v, nbit).b, nbit |-> Write(bits, v, nbit).nbit]
                /\ written' = [done |-> TRUE, v |-> v, nbit |-> nbit, before |-> bits]
    /\ padded' = NoPad
    /\ UNCHANGED <<planVars, calls, autoVars, penVars, sized>>

\* b.Pad(n); padded keeps the writer as it was and what Pad was asked for.
BitsPad ==
    /\ padded.panic = ""
    /\ bits.nbit <= MaxWriterBits
    /\ \E n \in -1..MaxPad :
          \E r \in {Pad(bits, n)} :
              /\ bits' = [b |-> r.b.b, nbit |-> r.b.nbit]
              /\ padded' = [done |-> TRUE, n |-> n, before |-> bits, panic |-> r.panic]
    /\ written' = NoWrite
    /\ UNCHANGED <<planVars, calls, autoVars, penVars, sized>>

\* var b Bits: the program goes on with a new writer.
BitsNew ==
    /\ padded.panic = ""
    /\ bits # NewBits
    /\ bits' = NewBits
    /\ padded' = NoPad
    /\ written' = NoWrite
    /\ UNCHANGED <<planVars, calls, autoVars, penVars, sized>>

NextBits ==
    \/ BitsWrite
    \/ BitsPad
    \/ BitsNew

SpecBits == Init /\ [][NextBits]_vars

(***************************************************************************)
(* Code.Penalty called on bitmaps made by hand: white squares of every     *)
(* size up to MaxPenSize with a band of up to MaxBand rows painted with a   *)
(* word, transposed and inverted at will, and the templates of version 1.  *)
(***************************************************************************)
MaxPenSize == 12
MaxBand == 2

\* The words painted: 1011101, 11111, 010101010101, the finder core twice
\* with four pixels between, and all ones.
PenWords == {93, 31, 1365, 190557, (2 ^ 24) - 1}

\* Code{Bitmap: make([]byte, size*stride), Size: size, Stride: stride}
BlankCode(size) == [Bitmap |-> {}, Size |-> size, Stride |-> (size + 7) \div 8]

\* The bits of rows y..y+h-1 when each holds the low Size bits of w, the most
\* significant at x = 0.
BandBits(c, y, h, w) ==
    {BitAt(c.Stride, yy, x) : yy \in y..y + h - 1,
                             x \in {x \in 0..c.Size - 1 : BitOf(w, c.Size - 1 - x) = 1}}

\* The bitmap with x and y exchanged, and with every pixel of the square
\* inverted.
Transposed(c) ==
    [c EXCEPT !.Bitmap = {BitAt(c.Stride, x, y) :
                             <<x, y>> \in {q \in (0..c.Size - 1) \X (0..c.Size - 1) :
                                              Black(c, q[1], q[2])}}]
Inverted(c) ==
    [c EXCEPT !.Bitmap = {BitAt(c.Stride, q[2], q[1]) :
                             q \in {q \in (0..c.Size - 1) \X (0..c.Size - 1) :
                                       ~Black(c, q[1], q[2])}}]

\* A white square of some size.
PenNew ==
    /\ image = ZeroCode
    /\ \E size \in 1..MaxPenSize : image' = BlankCode(size)
    /\ pen' = NoPen
    /\ UNCHANGED <<planVars, calls, autoVars, bitsVars, sized>>

\* The template of a version 1 Plan with one mask: p.Code of NewPlan.
PenTemplate ==
    /\ image = ZeroCode
    /\ \E m \in Masks :
          \E p \in {NewPlan(MinVersion, L, m).plan} :
              image' = [Bitmap |-> p.Code.Bitmap, Size |-> p.Code.Size,
                       Stride |-> p.Code.Stride]
    /\ pen' = NoPen
    /\ UNCHANGED <<planVars, calls, autoVars, bitsVars, sized>>

\* A band of a white square is painted.
PenPaint ==
    /\ image.Size > 0
    /\ ~pen.done
    /\ image.Bitmap = {}
    /\ \E h \in 1..MaxBand :
          \E y \in 0..image.Size - h :
              \E w \in PenWords :
                  \E o \in 0..image.Size - 1 :
                      image' = [image EXCEPT !.Bitmap =
                                   BandBits(image, y, h, (w % (2 ^ image.Size)) * (2 ^ o))]
    /\ pen' = NoPen
    /\ UNCHANGED <<planVars, calls, autoVars, bitsVars, sized>>

PenTranspose ==
    /\ image.Size > 0
    /\ ~pen.done
    /\ image' = Transposed(image)
    /\ pen' = pen
    /\ UNCHANGED <<planVars, calls, autoVars, bitsVars, sized>>

PenInvert ==
    /\ image.Size > 0
    /\ ~pen.done
    /\ image' = Inverted(image)
    /\ pen' = pen
    /\ UNCHANGED <<planVars, calls, autoVars, bitsVars, sized>>

\* c.Penalty()
PenCall ==
    /\ image.Size > 0
    /\ ~pen.done
    /\ pen' = [done |-> TRUE, p |-> Penalty(image)]
    /\ UNCHANGED <<planVars, calls, autoVars, bitsVars, image, sized>>

\* The program goes on with another Code.
PenDrop ==
    /\ pen.done
    /\ image' = ZeroCode
    /\ pen' = NoPen
    /\ UNCHANGED <<planVars, calls, autoVars, bitsVars, sized>>

NextPen ==
    \/ PenNew
    \/ PenTemplate
    \/ PenPaint
    \/ PenTranspose
    \/ PenInvert
    \/ PenCall
    \/ PenDrop

SpecPen == Init /\ [][NextPen]_vars

(***************************************************************************)
(* Plan.Encode up to its capacity test, for every version and level and    *)
(* for payloads too long to write out: a part of the payload is its mode   *)
(* and its length n, valid characters all.  Write adds nbit bits to the    *)
(* count whatever the value, so the bits a part's Encode writes are        *)
(* counted from its calls of Write; the two writes of its header, mode and *)
(* count, are made in full.                                                *)
(***************************************************************************)
MaxCount == 3

Modes == {"Num", "Alpha", "String", "Kanji"}

\* numLen[v.sizeClass()] and its like: the second argument of the count write.
CountLen(mode, v) ==
    CASE mode = "Num" -> numLen[sizeClass(v) + 1]
      [] mode = "Alpha" -> alphaLen[sizeClass(v) + 1]
      [] mode = "String" -> stringLen[sizeClass(v) + 1]
      [] mode = "Kanji" -> kanjiLen[sizeClass(v) + 1]

\* The first argument of b.Write(1, 4), b.Write(2, 4), b.Write(4, 4), b.Write(8, 4).
ModeWritten(mode) ==
    CASE mode = "Num" -> 1 [] mode = "Alpha" -> 2 [] mode = "String" -> 4 [] mode = "Kanji" -> 8

\* The bits the Encode of a part writes for n characters (Kanji: n two-byte
\* codes): 4, the count, and for Num 10 for every three digits and 4 or 7 for
\* the one or two left, for Alpha 11 for every pair and 6 for the one left,
\* for String 8 each, for Kanji 13 each.
NumBits(n, v) ==
    4 + numLen[sizeClass(v) + 1] + 10 * (n \div 3)
      + (IF n % 3 = 1 THEN 4 ELSE IF n % 3 = 2 THEN 7 ELSE 0)
\* Five bits for every character of an Alpha part.
AlphaBitsShort(n, v) == 4 + alphaLen[sizeClass(v) + 1] + 5 * n
AlphaBits(n, v) ==
    4 + alphaLen[sizeClass(v) + 1] + 11 * (n \div 2) + (IF n % 2 = 1 THEN 6 ELSE 0)
StringBits(n, v) == 4 + stringLen[sizeClass(v) + 1] + 8 * n
KanjiBits(n, v) == 4 + kanjiLen[sizeClass(v) + 1] + 13 * n
TextBits(mode, n, v) ==
    CASE mode = "Num" -> NumBits(n, v)
      [] mode = "Alpha" -> AlphaBits(n, v)
      [] mode = "String" -> StringBits(n, v)
      [] mode = "Kanji" -> KanjiBits(n, v)

\* The header of a part written to a writer that holds `at` bits, of which
\* the last byte is kept: before the count write and after it.
HeaderWritten(at, mode, n, v) ==
    LET before == Write(Write(NewBits, 0, at % 8), ModeWritten(mode), 4)
    IN  [before |-> before, after |-> Write(before, n, CountLen(mode, v))]

\* for _, t := range text { t.Encode(&b, p.Version) }: the bit count and the
\* headers, r being those of the parts before part i.
RECURSIVE SizedTexts(_, _, _, _)
SizedTexts(text, i, v, r) ==
    IF i > Len(text) THEN r
    ELSE SizedTexts(text, i + 1, v,
                    [nbit |-> r.nbit + TextBits(text[i].mode, text[i].n, v),
                     heads |-> Append(r.heads,
                                      HeaderWritten(r.nbit, text[i].mode, text[i].n, v))])

\* if b.Bits() > p.DataBytes*8 { return nil, fmt.Errorf("cannot encode ...") }
SizedEncode(v, l, text, r) ==
    [done |-> TRUE, version |-> v, level |-> l, text |-> text, nbit |-> r.nbit,
     err |-> IF r.nbit > DataBytes(v, l) * 8 THEN "capacity" ELSE "",
     heads |-> r.heads]

\* The lengths tried for a count of w bits: short ones, half the field, and
\* those about the first that does not fit the field.
Lengths(w) ==
    (0..MaxCount) \cup {2 ^ (w - 1)}
        \cup {(2 ^ w) - 1 - d : d \in 0..MaxCount} \cup {(2 ^ w) + d : d \in 0..MaxCount}

\* The payloads: one part, or one character and then a part.
SizedPayloads(v) ==
    UNION {{<<[mode |-> m, n |-> n]>> : n \in Lengths(CountLen(m, v))} : m \in Modes}
    \cup UNION {{<<[mode |-> f, n |-> 1], [mode |-> m, n |-> n]>> :
                    n \in Lengths(CountLen(m, v))} : <<f, m>> \in Modes \X Modes}

\* p.Encode(text...) for a Plan of version v and level l.
SizeEncode ==
    /\ ~sized.done
    /\ \E v \in MinVersion..MaxVersion :
          \E l \in Levels :
              \E text \in SizedPayloads(v) :
                  sized' = SizedEncode(v, l, text,
                                       SizedTexts(text, 1, v, [nbit |-> 0, heads |-> <<>>]))
    /\ UNCHANGED <<planVars, calls, autoVars, bitsVars, penVars>>

\* The caller takes the result.
SizeReturn ==
    /\ sized.done
    /\ sized' = NoSized
    /\ UNCHANGED <<planVars, calls, autoVars, bitsVars, penVars>>

NextSize ==
    \/ SizeEncode
    \/ SizeReturn

SpecSize == Init /\ [][NextSize]_vars

(***************************************************************************)
(* Properties of Encode.                                                    *)
(***************************************************************************)
\* Caller c has a Code in hand: Encode returned one, with no error.
Returned(c) == calls[c].pc = "done" /\ calls[c].err = "" /\ calls[c].panic = ""
AutoReturned(c) == plan # NoPlan /\ plan.Mask = -1 /\ Returned(c)

\* The Code a Plan built with fixed mask m returns for the payload.
FixedCode(v, l, m, text) == PlanEncode(NewPlan(v, l, m).plan, text).code
FixedPenalty(v, l, m, text) == Penalty(FixedCode(v, l, m, text))

\* The lowest mask whose Code has the least penalty among the eight.
MinMask(v, l, text) ==
    LET pens == [m \in Masks |-> FixedPenalty(v, l, m, text)] @@ <<>>
    IN  CHOOSE m \in Masks :
            /\ \A k \in Masks : pens[m] <= pens[k]
            /\ \A k \in Masks : k < m => pens[k] > pens[m]

\* C1: the Code Encode returns on a Plan built with mask -1 has a penalty no
\* larger than that of the Code a Plan built with any fixed mask 0..7 returns
\* for the same version, level and payload.
C1_AutoPenaltyLeast ==
    \A c \in DOMAIN calls :
        AutoReturned(c) =>
            \A m \in Masks :
                Penalty(calls[c].code)
                    <= FixedPenalty(plan.Version, plan.Level, m, calls[c].text)

\* An automatic Code that beats some fixed mask strictly.
C1_Witness ==
    \E c \in DOMAIN calls :
        /\ AutoReturned(c)
        /\ \E m \in Masks :
              Penalty(calls[c].code)
                  < FixedPenalty(plan.Version, plan.Level, m, calls[c].text)

\* C2: the bitmap Encode returns on a Plan built with mask -1 is the bitmap
\* the Plan built with fixed mask m* returns, m* being the lowest mask of
\* least penalty (a later mask of equal penalty never replaces an earlier).
C2_AutoIsLowestBestMask ==
    \A c \in DOMAIN calls :
        AutoReturned(c) =>
            calls[c].code = FixedCode(plan.Version, plan.Level,
                                      MinMask(plan.Version, plan.Level, calls[c].text),
                                      calls[c].text)

\* An automatic Code for a payload on which two masks tie for the least
\* penalty.
C2_Witness ==
    \E c \in DOMAIN calls :
        /\ AutoReturned(c)
        /\ LET first == MinMask(plan.Version, plan.Level, calls[c].text)
           IN  \E m \in Masks :
                  /\ m > first
                  /\ FixedPenalty(plan.Version, plan.Level, m, calls[c].text)
                        = Penalty(calls[c].code)

\* Caller c's Encode call has ended, by returning or by a fatal failure.
Ended(c) == plan # NoPlan /\ calls[c].pc = "done"

\* The bits the encoders of the payload write, up to the first that fails
\* Check or ends the program.
WrittenBits(c) == EncodeTexts(NewBits, calls[c].text, 1, plan.Version).b.nbit
AllPassCheck(c) == \A i \in 1..Len(calls[c].text) : CheckText(calls[c].text[i])
Overflows(c) == AllPassCheck(c) /\ WrittenBits(c) > plan.DataBytes * 8

\* C3: Encode returns an error and no Code exactly when some encoder fails
\* Check or the accumulated bit count exceeds DataBytes*8, in both cases
\* before AddCheckBytes pads or computes check bytes; in every other case it
\* returns a Code and no error.
C3_ErrorExactlyWhenInvalid ==
    \A c \in DOMAIN calls :
        Ended(c) =>
            IF ~AllPassCheck(c) \/ Overflows(c)
            THEN /\ calls[c].err # ""
                 /\ calls[c].code = NoCode
                 /\ calls[c].padbits = NotPadded
            ELSE /\ calls[c].err = ""
                 /\ calls[c].panic = ""
                 /\ calls[c].code # NoCode

\* An error was returned, before AddCheckBytes, for a payload that fails
\* Check and for one that exceeds the capacity.
C3_Witness ==
    \E c \in DOMAIN calls :
        /\ Ended(c)
        /\ calls[c].err = "capacity"
        /\ Overflows(c)
        /\ calls[c].padbits = NotPadded

\* C4: when every encoder's input passes Check and the written bits are at
\* most DataBytes*8, Encode has no fatal failure, the stream is exactly
\* DataBytes*8 bits after padding and exactly the version's codeword count
\* of bytes after the check bytes are appended.
C4_NoFatalFailure ==
    \A c \in DOMAIN calls :
        (Ended(c) /\ AllPassCheck(c) /\ WrittenBits(c) <= plan.DataBytes * 8) =>
            /\ calls[c].panic = ""
            /\ calls[c].padbits = plan.DataBytes * 8
            /\ calls[c].bytes = vtab[plan.Version].bytes

\* A payload that passes Check and fits ended Encode with a fatal failure.
C4_Witness ==
    \E c \in DOMAIN calls :
        /\ Ended(c) /\ AllPassCheck(c) /\ WrittenBits(c) <= plan.DataBytes * 8
        /\ calls[c].panic # ""

(***************************************************************************)
(* Properties of a built Plan.                                              *)
(***************************************************************************)
Cells == (0..plan.Code.Size - 1) \X (0..plan.Code.Size - 1)
CellsOf(roles) == {c \in Cells : Role(plan.Pixel[c[1]][c[2]]) \in roles}
OffsetsOf(roles) == {Offset(plan.Pixel[c[1]][c[2]]) : c \in CellsOf(roles)}
PlanBits == (plan.DataBytes + plan.CheckBytes) * 8

\* C5: NewPlan completes for every version, level and mask option, and every
\* cell of the Pixel grid carries one of the nine roles: none is left with
\* role 0 and the sweep never runs out of pixels to place.
C5_EveryCellHasRole ==
    /\ planErr = ""
    /\ plan # NoPlan => CellsOf(Position..Extra) = Cells

\* A Plan in which the sweep went on to place Extra fillers.
C5_Witness ==
    /\ plan # NoPlan
    /\ planErr = ""
    /\ CellsOf({Extra}) # {}
    /\ CellsOf({Data}) # {}

\* C6: the offsets of the modules tagged Data, Check or Extra are pairwise
\* distinct and their union is exactly [0, dataBits+checkBits+7).
C6_OffsetsWithExtra ==
    plan # NoPlan =>
        /\ Cardinality(CellsOf({Data, Check, Extra})) = PlanBits + NRem
        /\ OffsetsOf({Data, Check, Extra}) = 0..(PlanBits + NRem - 1)

\* C6 as the code has it: the offsets of the modules tagged Data or Check are
\* pairwise distinct and their union is exactly [0, dataBits+checkBits); the
\* modules tagged Extra, at most 7, all carry offset 0.
C6_OffsetsDataCheck ==
    plan # NoPlan =>
        /\ Cardinality(CellsOf({Data, Check})) = PlanBits
        /\ OffsetsOf({Data, Check}) = 0..(PlanBits - 1)
        /\ OffsetsOf({Extra}) \subseteq {0}
        /\ Cardinality(CellsOf({Extra})) <= NRem

\* A Plan with several blocks, so that the offsets are interleaved, and with
\* Extra modules.
C6_Witness ==
    /\ plan # NoPlan
    /\ plan.Blocks > 1
    /\ Cardinality(CellsOf({Extra})) = NRem
    /\ Cardinality(CellsOf({Data, Check})) = PlanBits

(***************************************************************************)
(* Properties of the format word.                                           *)
(***************************************************************************)
\* The product of q and g as polynomials over GF(2).
RECURSIVE ClMul(_, _)
ClMul(q, g) ==
    IF q = 0 THEN 0
    ELSE XorW(IF q % 2 = 1 THEN g ELSE 0, 2 * ClMul(q \div 2, g), 15)

\* The multiples of the generator 0x537 over GF(2) that fit in 15 bits.
Multiples == {ClMul(q, 1335) : q \in 0..31}

\* W = ((level XOR 1) << 13 | mask << 10 | rem) XOR 0x5412, rem the 10-bit
\* value that makes the word a multiple of 0x537 over GF(2).
FormatWord(l, m) ==
    LET raw == XorW(l, 1, 2) * 8192 + m * 1024
        word == CHOOSE w \in Multiples : w \div 1024 = raw \div 1024
    IN  XorW(word, 21522, 15)

\* The cells of Plan p tagged Format.
FormatCells(p) ==
    {c \in (0..p.Code.Size - 1) \X (0..p.Code.Size - 1) :
        Role(p.Pixel[c[1]][c[2]]) = Format}

\* In bitmap bm every module of fc, tagged Format with offset i, is black
\* exactly when bit i of w is 1.
ShowsWord(p, fc, bm, w) ==
    \A c \in fc :
        (BitAt(p.Code.Stride, c[1], c[2]) \in bm)
            <=> (BitOf(w, Offset(p.Pixel[c[1]][c[2]])) = 1)

\* The masks a Plan has templates for, and the template for mask m.
TemplateMasks(p) == IF p.Mask = -1 THEN Masks ELSE {p.Mask}
Template(p, m) == PlanSlice(p, IF p.Mask = -1 THEN m ELSE 0)

\* Every offset 0..14 is carried by two Format modules; the templates show
\* the words; every Code returned shows the word of the mask it is made with
\* (for a Plan of eight masks, the mask m whose Code it is).
FormatShown(p, fc) ==
    /\ \A i \in 0..14 :
          Cardinality({c \in fc : Offset(p.Pixel[c[1]][c[2]]) = i}) = 2
    /\ \A m \in TemplateMasks(p) :
          ShowsWord(p, fc, Template(p, m), FormatWord(p.Level, m))
    /\ \A c \in DOMAIN calls :
          Returned(c) =>
              \E m \in TemplateMasks(p) :
                  /\ ShowsWord(p, fc, calls[c].code.Bitmap, FormatWord(p.Level, m))
                  /\ p.Mask = -1 =>
                        calls[c].code = FixedCode(p.Version, p.Level, m, calls[c].text)

\* C9: for every level and mask, both modules tagged Format with offset i are
\* black exactly when bit i of W is 1, in the template for that mask and in
\* every Code encoded from it.
C9_FormatWord == plan # NoPlan => FormatShown(plan, FormatCells(plan))

\* Encode picked a mask other than 0 at a level other than M, and the Code
\* shows the word of that level and mask.
C9_Witness ==
    \E c \in DOMAIN calls :
        /\ AutoReturned(c)
        /\ plan.Level = H
        /\ \E m \in Masks \ {0} :
              ShowsWord(plan, FormatCells(plan), calls[c].code.Bitmap, FormatWord(H, m))

\* The Plan as NewPlan returned it for the arguments it was called with.
BuiltPlan == NewPlan(req.version, req.level, req.mask).plan
SameResult(c, r) ==
    /\ calls[c].code = r.code
    /\ calls[c].err = r.err
    /\ calls[c].panic = r.panic

\* C8: Encode leaves the Plan unchanged.  Whatever Encode calls have run or
\* are running on it, the Plan equals the Plan as constructed, and the Code
\* or error a call returns is the one Encode gives for its payload on the
\* Plan as constructed.
C8_PlanUnchanged ==
    plan # NoPlan =>
        /\ plan = BuiltPlan
        /\ \A c \in DOMAIN calls :
              calls[c].pc = "done" => SameResult(c, PlanEncode(BuiltPlan, calls[c].text))

\* A call has returned a Code while another call on the same Plan has its
\* data placed and has not yet returned.
C8_Witness ==
    \E c, d \in DOMAIN calls :
        /\ plan # NoPlan
        /\ calls[c].pc = "done" /\ calls[c].code # NoCode
        /\ calls[d].pc = "placed"
        /\ calls[c].text # calls[d].text

(***************************************************************************)
(* Properties of the plan cache.                                            *)
(***************************************************************************)
\* C7: under every interleaving of calls for the same version and level the
\* slot's Plan is constructed at most once, and every call obtains a non-nil,
\* fully constructed Plan, never a nil or partially built one.
C7_BuiltOnceAndComplete ==
    /\ \A l \in AutoLevels : autoPlans[l].built <= 1
    /\ \A g \in DOMAIN gor :
          (gor[g].pc = "done" /\ gor[g].got # "none") => gor[g].got = "complete"

\* Two goroutines used the same slot, one of them without passing through
\* once.Do, and the Plan was built once.
C7_Witness ==
    \E g, h \in DOMAIN gor :
        /\ g # h
        /\ gor[g].pc = "done" /\ gor[g].got = "complete" /\ gor[g].synced # {}
        /\ gor[h].pc = "done" /\ gor[h].got # "none" /\ gor[h].synced = {}
        /\ gor[g].level = gor[h].level
        /\ autoPlans[gor[g].level].built = 1

(***************************************************************************)
(* Properties of the Bits writer.                                           *)
(***************************************************************************)
\* Bit number pos (from 0) of the writer's stream.
StreamBit(b, pos) == BitOf(b.b[(pos \div 8) + 1], 7 - (pos % 8))

\* Bit number k of the padding for Pad(n) on a writer holding prior bits: n
\* zero bits when n <= 4; otherwise four zero bits, zero bits up to the byte
\* boundary, then the bytes 0xEC, 0x11, 0xEC, ... as far as n reaches.
PadBit(prior, n, k) ==
    IF n <= 4 \/ k < 4 + NegAnd7(prior + 4) THEN 0
    ELSE LET j == k - 4 - NegAnd7(prior + 4)
         IN  BitOf(IF (j \div 8) % 2 = 0 THEN 236 ELSE 17, 7 - (j % 8))

\* A Pad(n) with n >= 0 has just been applied.
JustPadded == padded.done /\ padded.n >= 0

\* C10: for every n >= 0 and every prior bit count Pad(n) appends exactly n
\* bits, and they are the padding: zero bits for n <= 4, otherwise the 4-bit
\* terminator, zero bits to the byte boundary and the pad bytes 0xEC, 0x11
\* alternating for the remaining bits.
C10_PadAppendsN ==
    JustPadded =>
        /\ bits.nbit = padded.before.nbit + padded.n
        /\ \A k \in 0..padded.n - 1 :
              StreamBit(bits, padded.before.nbit + k)
                  = PadBit(padded.before.nbit, padded.n, k)

\* Pad was asked for more than the terminator and wrote both pad bytes.
C10_Witness ==
    /\ JustPadded
    /\ padded.n > 4
    /\ \E i, j \in 1..Len(bits.b) : bits.b[i] = 236 /\ bits.b[j] = 17

\* A Write has just been applied; FitsWrite when the value had no bit set at
\* or above position nbit.
JustWritten == written.done
FitsWrite == written.v < 2 ^ written.nbit

\* What Write(v, nbit) is to do to the stream: nbit more bits, the bits before
\* them as they were, and the new ones the low nbit bits of v from the top.
WriteAppends ==
    /\ bits.nbit = written.before.nbit + written.nbit
    /\ \A k \in 0..written.before.nbit - 1 :
          StreamBit(bits, k) = StreamBit(written.before, k)
    /\ \A k \in 0..written.nbit - 1 :
          StreamBit(bits, written.before.nbit + k)
              = BitOf(written.v, written.nbit - 1 - k)

\* C11: for every value, every nbit >= 0 and every prior writer state, aligned
\* or in the middle of a byte, Write(v, nbit) adds exactly nbit bits, leaves
\* the bits written before unchanged and appends the low nbit bits of v, most
\* significant first, also when v has bits set at or above position nbit.
C11_WriteAppendsLowBits == JustWritten => WriteAppends

\* A value with a bit set at or above nbit was written in the middle of a
\* byte.
C11_Witness ==
    /\ JustWritten
    /\ ~FitsWrite
    /\ written.nbit > 0
    /\ written.before.nbit % 8 # 0

\* The same for values that fit nbit bits.
WriteAppendsWhenFits == (JustWritten /\ FitsWrite) => WriteAppends

(***************************************************************************)
(* Properties of Code.Penalty.                                              *)
(***************************************************************************)
\* Pixel k of row i (horiz) or of column i, 1 for black; pixels outside the
\* bitmap are the white quiet zone.
LinePixel(c, horiz, i, k) ==
    IF (IF horiz THEN Black(c, k, i) ELSE Black(c, i, k)) THEN 1 ELSE 0

\* The lines of the bitmap: <<TRUE, y>> is row y, <<FALSE, x>> column x.
Lines(c) == BOOLEAN \X (0..c.Size - 1)

\* Pixel k starts a maximal run of its line, and the run ends before pixel e.
RunStart(c, horiz, i, k) ==
    k = 0 \/ LinePixel(c, horiz, i, k - 1) # LinePixel(c, horiz, i, k)
RunEnd(c, horiz, i, k) ==
    CHOOSE e \in k + 1..c.Size :
        /\ e = c.Size \/ LinePixel(c, horiz, i, e) # LinePixel(c, horiz, i, k)
        /\ \A j \in k + 1..e - 1 : LinePixel(c, horiz, i, j) = LinePixel(c, horiz, i, k)

\* The maximal runs of n >= 5 pixels of one colour, as <<horiz, i, start, n>>.
LongRuns(c) ==
    {r \in {<<l[1], l[2], k, RunEnd(c, l[1], l[2], k) - k>> :
                l \in Lines(c), k \in 0..c.Size - 1} :
        RunStart(c, r[1], r[2], r[3]) /\ r[4] >= 5}

\* (run) n - 2 for each of them.
RECURSIVE RunSum(_)
RunSum(rs) ==
    IF rs = {} THEN 0
    ELSE LET r == CHOOSE r \in rs : TRUE
         IN  (r[4] - 2) + RunSum(rs \ {r})
RunTerm(c) == RunSum(LongRuns(c))

\* (box) 3 for each 2x2 block of one colour, named by its top left pixel.
BoxTerm(c) ==
    3 * Cardinality({q \in (0..c.Size - 2) \X (0..c.Size - 2) :
                        /\ Black(c, q[1] + 1, q[2]) = Black(c, q[1], q[2])
                        /\ Black(c, q[1], q[2] + 1) = Black(c, q[1], q[2])
                        /\ Black(c, q[1] + 1, q[2] + 1) = Black(c, q[1], q[2])})

\* (finder) the pattern 0000 1011101 0 and its mirror 0 1011101 0000, and the
\* number of white pixels a line is extended by at each end.
FinderBefore == <<0, 0, 0, 0, 1, 0, 1, 1, 1, 0, 1, 0>>
FinderAfter == <<0, 1, 0, 1, 1, 1, 0, 1, 0, 0, 0, 0>>
QuietZone == 4

\* 40 for each place <<horiz, i, start, pattern>> of the extended lines where
\* a pattern lies.
FinderTerm(c) ==
    40 * Cardinality({f \in Lines(c) \X (0 - QuietZone..c.Size + QuietZone - 12)
                                     \X {FinderBefore, FinderAfter} :
                         \A j \in 1..12 :
                             LinePixel(c, f[1][1], f[1][2], f[2] + j - 1) = f[3][j]})

\* (balance) (9 - floor(b*20/total))*10 with b the smaller of the numbers of
\* black and of white pixels.
BalanceTerm(c) ==
    LET total == c.Size * c.Size
        black == Cardinality({q \in (0..c.Size - 1) \X (0..c.Size - 1) :
                                 Black(c, q[1], q[2])})
    IN  (9 - ((Min(black, total - black) * 20) \div total)) * 10

ReferencePenalty(c) == RunTerm(c) + BoxTerm(c) + FinderTerm(c) + BalanceTerm(c)

\* C12: for every square bitmap Penalty() is the sum of the four reference
\* terms: n - 2 for each maximal run of n >= 5 pixels of one colour in every
\* row and column; 3 for each 2x2 block of one colour, overlapping ones
\* counted each; 40 for each occurrence of 0000 1011101 0 or 0 1011101 0000
\* in a row or column extended by white pixels at both ends; and
\* (9 - floor(b*20/total))*10 with b = min(black, total - black).
C12_PenaltyIsReference == pen.done => pen.p = ReferencePenalty(image)

\* Penalty was computed for a bitmap with a long run, a block and a finder
\* pattern that reaches into the quiet zone.
C12_Witness ==
    /\ pen.done
    /\ RunTerm(image) > 0
    /\ BoxTerm(image) > 0
    /\ \E f \in Lines(image) \X ({0 - QuietZone} \cup {image.Size + QuietZone - 12})
                             \X {FinderBefore, FinderAfter} :
          \A j \in 1..12 :
              LinePixel(image, f[1][1], f[1][2], f[2] + j - 1) = f[3][j]

(***************************************************************************)
(* Properties of the modules of a Code made with a fixed mask.              *)
(***************************************************************************)
\* The test of mask m at row r, column c.
MaskTest(m, r, c) ==
    CASE m = 0 -> (r + c) % 2 = 0
      [] m = 1 -> r % 2 = 0
      [] m = 2 -> c % 3 = 0
      [] m = 3 -> (r + c) % 3 = 0
      [] m = 4 -> ((r \div 2) + (c \div 3)) % 2 = 0
      [] m = 5 -> ((r * c) % 2) + ((r * c) % 3) = 0
      [] m = 6 -> (((r * c) % 2) + ((r * c) % 3)) % 2 = 0
      [] m = 7 -> (((r * c) % 3) + ((r + c) % 2)) % 2 = 0

\* The colour module (r, c) of a Code of Plan p is to have when stream is the
\* data and check codewords: black is TRUE.
ModuleColour(p, stream, r, c) ==
    LET pix == p.Pixel[r][c]
    IN  IF Role(pix) \in {Data, Check}
        THEN (StreamBit(stream, Offset(pix)) = 1) # MaskTest(p.Mask, r, c)
        ELSE IF Role(pix) = Extra
        THEN MaskTest(p.Mask, r, c)
        ELSE BitAt(p.Code.Stride, r, c) \in p.Code.Bitmap

\* Every module of the bitmap bm has that colour.
ModulesAsPlanned(p, stream, bm) ==
    \A r, c \in 0..p.Code.Size - 1 :
        (BitAt(p.Code.Stride, r, c) \in bm) = ModuleColour(p, stream, r, c)

\* C13: in every Code a Plan with fixed mask m returns, a module tagged Data
\* or Check with offset o is black exactly when bit o of the final data and
\* check codeword stream, xor the mask test at the module, is true; a module
\* tagged Extra is black exactly when the mask test is true; every other
\* module has the colour it has in the Plan's template.
C13_ModulesOfFixedMask ==
    \A c \in DOMAIN calls :
        (plan # NoPlan /\ plan.Mask >= 0 /\ Returned(c)) =>
            ModulesAsPlanned(plan, EncodeBytes(plan, calls[c].text).b, calls[c].code.Bitmap)

\* A Code of a Plan with Extra modules and a mask other than 0, with a Data
\* module that a set bit and the mask together leave white.
C13_Witness ==
    \E c \in DOMAIN calls :
        /\ plan # NoPlan /\ plan.Mask > 0 /\ Returned(c)
        /\ \E q \in Cells :
              /\ Role(plan.Pixel[q[1]][q[2]]) = Extra
              /\ MaskTest(plan.Mask, q[1], q[2])
        /\ \E q \in Cells :
              /\ Role(plan.Pixel[q[1]][q[2]]) = Data
              /\ MaskTest(plan.Mask, q[1], q[2])
              /\ StreamBit(EncodeBytes(plan, calls[c].text).b,
                           Offset(plan.Pixel[q[1]][q[2]])) = 1
              /\ BitAt(plan.Code.Stride, q[1], q[2]) \notin calls[c].code.Bitmap

(***************************************************************************)
(* Properties of the order of the Data and Check modules.                   *)
(***************************************************************************)
\* The right column of column pair k, counted from the right: the pairs left
\* of column 6 lie one column further left.
PairColumn(siz, k) == IF siz - 1 - 2 * k > 6 THEN siz - 1 - 2 * k ELSE siz - 2 - 2 * k

\* The cells <<row, column>> in zigzag order: pair after pair from the right,
\* the even pairs from the bottom up and the odd ones from the top down, in
\* each row the right cell before the left.
Zigzag(siz) ==
    [n \in 1..siz * (siz - 1) |->
        LET k == (n - 1) \div (2 * siz)
            step == ((n - 1) % (2 * siz)) \div 2
        IN  <<IF k % 2 = 0 THEN siz - 1 - step ELSE step,
              PairColumn(siz, k) - ((n - 1) % 2)>>] \o <<>>

\* The offsets of the Data and Check modules of Plan p, read in that order.
ZigzagOffsets(p) ==
    LET read == SelectSeq(Zigzag(p.Code.Size),
                          LAMBDA q : Role(p.Pixel[q[1]][q[2]]) \in {Data, Check})
    IN  [n \in 1..Len(read) |-> Offset(p.Pixel[read[n][1]][read[n][2]])] \o <<>>

\* The first data byte of block j when nblock blocks have nde data bytes each
\* and the last extra of them one more.
BlockStart(nblock, nde, extra, j) ==
    j * nde + (IF j > nblock - extra THEN j - (nblock - extra) ELSE 0)

\* The byte at place m of the interleaved order: data byte i of every block
\* that has one, block after block, for i = 0, 1, ..., then check byte i of
\* every block.  nd is the number of data bytes, ne that of the check bytes of
\* one block.
InterleavedByte(nblock, nd, ne, m) ==
    LET nde == nd \div nblock
        extra == nd % nblock
    IN  IF m < nde * nblock
        THEN BlockStart(nblock, nde, extra, m % nblock) + (m \div nblock)
        ELSE IF m < nd
        THEN BlockStart(nblock, nde, extra, nblock - extra + (m - nde * nblock)) + nde
        ELSE nd + ((m - nd) % nblock) * ne + ((m - nd) \div nblock)

\* The offsets read are the bits of the bytes of the interleaved order, each
\* byte from its first bit to its last.
ReadsInterleaved(p, offs) ==
    /\ Len(offs) = (p.DataBytes + p.CheckBytes) * 8
    /\ \A n \in 1..Len(offs) :
          offs[n] = 8 * InterleavedByte(p.Blocks, p.DataBytes, p.CheckBytes \div p.Blocks,
                                        (n - 1) \div 8)
                    + ((n - 1) % 8)

\* A writer holding nd data bytes, no two blocks of them alike.
SampleData(nd) == [b |-> [k \in 1..nd |-> (k * 37 + 11) % 256] \o <<>>, nbit |-> nd * 8]

\* AddCheckBytes, given the data bytes dat of a Plan's version and level,
\* appends for block after block of the same split the check bytes of the
\* block's data bytes.
ChecksOfSameSplit(p, dat, r) ==
    LET nd == p.DataBytes
        ne == p.CheckBytes \div p.Blocks
        nde == nd \div p.Blocks
        extra == nd % p.Blocks
    IN  /\ r.panic = ""
        /\ \A j \in 0..p.Blocks - 1 :
              SubSeq(r.b.b, nd + j * ne + 1, nd + (j + 1) * ne)
                  = ECC(SubSeq(dat.b, BlockStart(p.Blocks, nde, extra, j) + 1,
                               BlockStart(p.Blocks, nde, extra, j + 1)), ne)

\* C14: for every version and level, the Data and Check modules of the built
\* Plan read in zigzag order (column pairs from the rightmost leftward,
\* alternately bottom to top and top to bottom, right cell before left,
\* column 6 skipped) are the interleaved byte order: data byte i of every
\* block that has a byte i, in block order, for i = 0, 1, ..., then check byte
\* i of every block; the blocks have nde data bytes each but the last extra
\* of them, which have nde + 1, and that is the split by which AddCheckBytes
\* computes the check bytes of each block.
\* AddCheckBytes is given the version and the level and no mask: it is called
\* once for each pair of them, at the Plan built for all eight masks.
C14_ZigzagIsInterleaved ==
    plan # NoPlan =>
        /\ ReadsInterleaved(plan, ZigzagOffsets(plan))
        /\ plan.Mask = -1 =>
              ChecksOfSameSplit(plan, SampleData(plan.DataBytes),
                                AddCheckBytes(SampleData(plan.DataBytes), plan.Version,
                                              plan.Level))

\* A Plan of several blocks, the last of them one data byte longer.
C14_Witness ==
    /\ plan # NoPlan
    /\ plan.Blocks > 2
    /\ plan.DataBytes % plan.Blocks \in 1..plan.Blocks - 2

(***************************************************************************)
(* Properties of the character counts.                                      *)
(***************************************************************************)
\* The width of the count field of a mode at a version: by the size classes
\* 1..9, 10..26 and 27..40.
FieldWidth(mode, v) ==
    LET class == IF v <= 9 THEN 1 ELSE IF v <= 26 THEN 2 ELSE 3
    IN  CASE mode = "Num" -> <<10, 12, 14>>[class]
          [] mode = "Alpha" -> <<9, 11, 13>>[class]
          [] mode = "String" -> <<8, 16, 16>>[class]
          [] mode = "Kanji" -> <<8, 10, 12>>[class]

\* The count n fits a field of w bits, and the count write h put it there
\* whole and left the bits before it alone.
CountWhole(n, w, h) ==
    /\ n < 2 ^ w
    /\ h.after.nbit = h.before.nbit + w
    /\ \A k \in 0..h.before.nbit - 1 : StreamBit(h.after, k) = StreamBit(h.before, k)
    /\ \A j \in 0..w - 1 : StreamBit(h.after, h.before.nbit + j) = BitOf(n, w - 1 - j)

\* C15: in every successful Encode, at any version and level and with any
\* number of parts, the character count of each part is less than 2^w, w the
\* width of the count field of its mode in the version's size class; so the
\* count field is written whole and the count write leaves the mode indicator
\* before it as it was.  A payload with a count that does not fit its field
\* is rejected as exceeding the capacity.
C15_CountsFitTheirFields ==
    sized.done =>
        /\ sized.err = "" =>
              \A i \in 1..Len(sized.text) :
                  CountWhole(sized.text[i].n,
                             FieldWidth(sized.text[i].mode, sized.version), sized.heads[i])
        /\ (\E i \in 1..Len(sized.text) :
                sized.text[i].n >= 2 ^ FieldWidth(sized.text[i].mode, sized.version))
              => sized.err = "capacity"

\* A successful Encode whose second part begins in the middle of a byte and
\* has a count that uses the top bit of its field.
C15_Witness ==
    /\ sized.done
    /\ sized.err = ""
    /\ Len(sized.text) = 2
    /\ sized.heads[2].before.nbit % 8 # 4
    /\ sized.text[2].n >= 2 ^ (FieldWidth(sized.text[2].mode, sized.version) - 1)

\* The bits counted for a short payload are those Encode writes for it.
SizedAsEncoded ==
    (sized.done /\ \A i \in 1..Len(sized.text) : sized.text[i].n <= MaxCount) =>
        sized.nbit
            = EncodeTexts(NewBits,
                          [i \in 1..Len(sized.text) |->
                              Seg(sized.text[i].mode,
                                  [k \in 1..sized.text[i].n |->
                                      IF sized.text[i].mode = "Kanji" THEN KanjiTen ELSE 49]
                                  \o <<>>)] \o <<>>,
                          1, sized.version).b.nbit
====
